---- MODULE Spec2Model ----
(***************************************************************************)
(* Model of the Strength Club chat widget (kimberley25/ai-chatbot).        *)
(*                                                                         *)
(*   - the question classifier: the DISCOVERY_PATTERNS table of the        *)
(*     configuration file (src/unnamed/part_000), the exclusion phrase     *)
(*     lists and ChatApp.checkForDiscoveryQuestion (src/unnamed/part_001); *)
(*   - the transcript profile extractor ChatApp.extractGoalAndPlan;        *)
(*   - the chat controller ChatApp: its fields, the DOM state it drives,   *)
(*     the requests it has in flight and the timers it has armed.          *)
(*                                                                         *)
(* Messages are TLA+ strings; String.prototype.includes, toLowerCase,      *)
(* trim and join are computed character by character.                      *)
(***************************************************************************)
EXTENDS Integers, Sequences, FiniteSets, TLC

(***************************************************************************)
(* String primitives                                                       *)
(***************************************************************************)

\* String.prototype.includes: pat occurs in msg as a contiguous substring.
Includes(msg, pat) ==
    \E i \in 1..(Len(msg) - Len(pat) + 1) : SubSeq(msg, i, i + Len(pat) - 1) = pat

\* The upper-case letters and their lower-case forms.
LowerMap ==
    [A |-> "a", B |-> "b", C |-> "c", D |-> "d", E |-> "e", F |-> "f", G |-> "g",
     H |-> "h", I |-> "i", J |-> "j", K |-> "k", L |-> "l", M |-> "m", N |-> "n",
     O |-> "o", P |-> "p", Q |-> "q", R |-> "r", S |-> "s", T |-> "t", U |-> "u",
     V |-> "v", W |-> "w", X |-> "x", Y |-> "y", Z |-> "z"]

\* s with the upper-case letters at the positions of upper replaced by their
\* lower-case forms.
RECURSIVE lowerAt(_, _)
lowerAt(s, upper) ==
    IF upper = {} THEN s
    ELSE \* the replacement keeps the length, so the other positions stay valid
         LET i == CHOOSE p \in upper : TRUE
         IN  lowerAt(SubSeq(s, 1, i - 1) \o LowerMap[SubSeq(s, i, i)]
                        \o SubSeq(s, i + 1, Len(s)),
                     upper \ {i})

\* String.prototype.toLowerCase: every character is mapped on its own; the
\* characters that are not upper-case letters stay as they are.
toLowerCase(s) ==
    lowerAt(s, {i \in 1..Len(s) : SubSeq(s, i, i) \in DOMAIN LowerMap})

\* The characters String.prototype.trim removes.
IsSpace(c) == c \in {" ", "\n", "\t", "\r"}

\* String.prototype.trim.
RECURSIVE trim(_)
trim(s) ==
    IF Len(s) = 0 THEN ""
    ELSE IF IsSpace(SubSeq(s, 1, 1)) THEN trim(SubSeq(s, 2, Len(s)))
    ELSE IF IsSpace(SubSeq(s, Len(s), Len(s))) THEN trim(SubSeq(s, 1, Len(s) - 1))
    ELSE s

\* Array.prototype.join(' ') of a sequence of strings.
RECURSIVE join(_)
join(ss) ==
    IF Len(ss) = 0 THEN ""
    ELSE IF Len(ss) = 1 THEN ss[1]
    ELSE ss[1] \o " " \o join(Tail(ss))

\* Array.prototype.some(pattern => message.includes(pattern)).
SomeIncluded(message, phrases) == \E p \in phrases : Includes(message, p)

(***************************************************************************)
(* The match predicates of DISCOVERY_PATTERNS, in table order.  Each takes *)
(* the message as the classifier passes it (already lower-cased).          *)
(***************************************************************************)

\* A package-type predicate whose question cues lack 'would you'.
match_package_type_fewerCues(msg) ==
    IF Includes(msg, "getting stronger") \/ Includes(msg, "preparing for a competition")
    THEN FALSE
    ELSE IF Includes(msg, "nutrition support")
            /\ ~Includes(msg, "includes nutrition support")
            /\ ~Includes(msg, "full athlete package")
    THEN FALSE
    ELSE IF Includes(msg, "mainly looking for")
            /\ (Includes(msg, "stronger") \/ Includes(msg, "competition")
                \/ Includes(msg, "nutrition"))
    THEN FALSE
    ELSE /\ \/ Includes(msg, "training only")
            \/ Includes(msg, "training-only")
            \/ Includes(msg, "full athlete package")
         /\ \/ Includes(msg, "prefer")
            \/ Includes(msg, "choose")
            \/ Includes(msg, "interested in")
            \/ Includes(msg, "which")

match_package_type(msg) ==
    IF Includes(msg, "getting stronger") \/ Includes(msg, "preparing for a competition")
    THEN FALSE
    ELSE IF Includes(msg, "nutrition support")
            /\ ~Includes(msg, "includes nutrition support")
            /\ ~Includes(msg, "full athlete package")
    THEN FALSE
    ELSE IF Includes(msg, "mainly looking for")
            /\ (Includes(msg, "stronger") \/ Includes(msg, "competition")
                \/ Includes(msg, "nutrition"))
    THEN FALSE
    ELSE LET hasPackageKeywords == Includes(msg, "training only")
                                   \/ Includes(msg, "training-only")
                                   \/ Includes(msg, "full athlete package")
             isQuestion == Includes(msg, "would you")
                           \/ Includes(msg, "prefer")
                           \/ Includes(msg, "choose")
                           \/ Includes(msg, "interested in")
                           \/ Includes(msg, "which")
         IN  hasPackageKeywords /\ isQuestion

match_check_in_frequency(msg) ==
    IF Includes(msg, "we offer")
       \/ (Includes(msg, "services") /\ (Includes(msg, "include") \/ Includes(msg, "variety")))
       \/ (Includes(msg, "coaching services") /\ Includes(msg, "including"))
    THEN FALSE
    ELSE IF Includes(msg, "what kind of support would help you most")
            \/ Includes(msg, "what kind of support would help you stay on track")
            \/ (Includes(msg, "what kind of support") /\ Includes(msg, "help you"))
    THEN FALSE
    ELSE LET hasCheckIn == (Includes(msg, "check") /\ Includes(msg, "in"))
                           \/ Includes(msg, "check-in")
                           \/ Includes(msg, "checkin")
             hasFrequency == Includes(msg, "how often") \/ Includes(msg, "frequency")
             hasOptions == Includes(msg, "weekly or fortnightly")
                           \/ Includes(msg, "fortnightly or weekly")
                           \/ Includes(msg, "prefer weekly or fortnightly")
             isQuestion == Includes(msg, "?")
                           \/ Includes(msg, "would you")
                           \/ Includes(msg, "do you")
                           \/ Includes(msg, "prefer")
         IN  IF hasFrequency /\ hasCheckIn THEN TRUE
             ELSE IF hasFrequency
                     /\ (hasCheckIn \/ Includes(msg, "coaching") \/ Includes(msg, "nutrition"))
                     /\ isQuestion
             THEN TRUE
             ELSE hasOptions

match_training_experience(msg) ==
    \/ Includes(msg, "training experience")
    \/ Includes(msg, "experience level")
    \/ Includes(msg, "what is your experience")
    \/ Includes(msg, "describe your training experience")
    \/ Includes(msg, "let me know your training experience")
    \/ Includes(msg, "are you a beginner")
    \/ Includes(msg, "beginner, intermediate")
    \/ Includes(msg, "advanced/competitive")
    \/ Includes(msg, "advanced or competitive")

match_coaching_preference(msg) ==
    LET isAskingAboutCoachingMode == Includes(msg, "online coaching")
                                     \/ Includes(msg, "in-person coaching")
        hasWeeklyFortnightly == Includes(msg, "weekly") \/ Includes(msg, "fortnightly")
        hasCheckIn == Includes(msg, "check-in") \/ Includes(msg, "check in")
        isCheckInQuestion == hasWeeklyFortnightly /\ hasCheckIn
        isAskingPackageType ==
            /\ (Includes(msg, "training only") \/ Includes(msg, "full athlete package"))
            /\ (Includes(msg, "would you like") \/ Includes(msg, "would you prefer"))
            /\ ~Includes(msg, "coaching preference")
            /\ ~isAskingAboutCoachingMode
    IN  IF isCheckInQuestion \/ isAskingPackageType THEN FALSE
        ELSE \/ Includes(msg, "coaching preference")
             \/ Includes(msg, "open to recommendations")
             \/ (Includes(msg, "would you prefer") /\ isAskingAboutCoachingMode
                 /\ ~Includes(msg, "training only"))
             \/ Includes(msg, "prefer online coaching")
             \/ Includes(msg, "prefer in-person")
             \/ (Includes(msg, "online coaching") /\ Includes(msg, "in-person coaching")
                 /\ (Includes(msg, "prefer") \/ Includes(msg, "recommendation")
                     \/ Includes(msg, "open to") \/ Includes(msg, "would you")))

match_services_interest(msg) ==
    IF Includes(msg, "welcome")
       /\ (Includes(msg, "what can i help") \/ Includes(msg, "questions about"))
    THEN FALSE
    ELSE
    LET hasGoalKeywords == Includes(msg, "getting stronger")
                           \/ Includes(msg, "preparing for a competition")
                           \/ Includes(msg, "nutrition support")
                           \/ Includes(msg, "point you in the right direction")
        isAskingGoal == Includes(msg, "mainly looking for")
                        \/ Includes(msg, "what are you")
                        \/ Includes(msg, "right now")
        hasServicesKeywords == Includes(msg, "five coaching options")
                               \/ Includes(msg, "coaching options, covering")
                               \/ (Includes(msg, "online") /\ Includes(msg, "in-person")
                                   /\ Includes(msg, "club training"))
        hasServicesContext ==
            /\ (Includes(msg, "services") \/ Includes(msg, "offer")
                \/ Includes(msg, "coaching options") \/ Includes(msg, "variety"))
            /\ (Includes(msg, "online coaching") \/ Includes(msg, "club coaching")
                \/ Includes(msg, "nutrition coaching") \/ Includes(msg, "1-to-1")
                \/ Includes(msg, "full athlete") \/ Includes(msg, "athlete package"))
        hasMultipleServices ==
            \/ (Includes(msg, "online coaching") /\ Includes(msg, "club coaching"))
            \/ (Includes(msg, "online coaching")
                /\ (Includes(msg, "nutrition") \/ Includes(msg, "athlete")))
            \/ (Includes(msg, "club coaching") /\ Includes(msg, "nutrition"))
            \/ (Includes(msg, "variety")
                /\ (Includes(msg, "coaching") \/ Includes(msg, "services")))
        isAskingInterest ==
            /\ (Includes(msg, "what are you interested")
                \/ Includes(msg, "what would you like")
                \/ Includes(msg, "what can i help")
                \/ Includes(msg, "specific goal")
                \/ Includes(msg, "interested in any specific"))
            /\ hasServicesContext
        isInvitingChoice ==
            /\ (Includes(msg, "if you have a specific goal")
                \/ Includes(msg, "if you're interested")
                \/ Includes(msg, "feel free to ask")
                \/ Includes(msg, "let me know")
                \/ Includes(msg, "what are you"))
            /\ hasMultipleServices
    IN  IF hasGoalKeywords /\ isAskingGoal THEN TRUE
        ELSE IF hasServicesKeywords /\ Includes(msg, "point you in the right direction")
                /\ isAskingGoal
        THEN TRUE
        ELSE IF (Includes(msg, "five coaching options")
                 \/ (Includes(msg, "coaching options") /\ Includes(msg, "covering")))
                /\ (Includes(msg, "mainly looking for")
                    \/ (Includes(msg, "what are you") /\ Includes(msg, "looking")))
        THEN TRUE
        ELSE (hasServicesContext /\ hasMultipleServices) \/ isAskingInterest
             \/ isInvitingChoice

match_one_to_one_addon(msg) ==
    /\ (Includes(msg, "1-to-1") \/ Includes(msg, "one-to-one"))
    /\ (Includes(msg, "add-on") \/ Includes(msg, "adding")
        \/ Includes(msg, "interested in adding") \/ Includes(msg, "add"))
    /\ (Includes(msg, "?") \/ Includes(msg, "would you"))

match_one_to_one_addon_online(msg) ==
    /\ (Includes(msg, "1-to-1") \/ Includes(msg, "one-to-one"))
    /\ (Includes(msg, "add-on") \/ Includes(msg, "adding")
        \/ Includes(msg, "interested in adding") \/ Includes(msg, "add"))
    /\ (Includes(msg, "online coaching") \/ Includes(msg, "Online Coaching"))
    /\ (Includes(msg, "?") \/ Includes(msg, "would you"))

match_nutrition_goal(msg) ==
    LET isGoalClassification ==
            \/ Includes(msg, "point you in the right direction")
            \/ (Includes(msg, "mainly looking for") /\ Includes(msg, "right now"))
            \/ Includes(msg, "five coaching options")
        isRecommendation ==
            \/ Includes(msg, "would suit you best")
            \/ Includes(msg, "Based on what you've shared")
            \/ Includes(msg, "I recommend")
            \/ Includes(msg, "I'd recommend")
    IN  IF isGoalClassification \/ isRecommendation THEN FALSE
        ELSE \/ Includes(msg, "nutrition goal")
             \/ Includes(msg, "what is your nutrition goal")
             \/ (Includes(msg, "nutrition") /\ Includes(msg, "goal")
                 /\ ~Includes(msg, "coaching options"))

match_competed_before(msg) ==
    \/ Includes(msg, "competed before")
    \/ Includes(msg, "have you competed")
    \/ Includes(msg, "have you ever competed")
    \/ Includes(msg, "competed in a powerlifting")
    \/ Includes(msg, "competed in powerlifting")
    \/ (Includes(msg, "competition") /\ Includes(msg, "before")
        /\ (Includes(msg, "have") \/ Includes(msg, "ever") \/ Includes(msg, "you")))

match_nutrition_struggles_direct(msg) ==
    IF Includes(msg, "how often") THEN FALSE
    ELSE \/ Includes(msg, "what do you struggle with most when it comes to nutrition")
         \/ (Includes(msg, "what do you struggle with most") /\ Includes(msg, "nutrition"))
         \/ (Includes(msg, "what do you struggle") /\ Includes(msg, "nutrition"))

match_nutrition_structure_checkins(msg) ==
    \/ (Includes(msg, "structure and accountability")
        /\ Includes(msg, "what level of hands-on support"))
    \/ (Includes(msg, "got it") /\ Includes(msg, "structure") /\ Includes(msg, "what level"))
    \/ (Includes(msg, "mostly want structure") /\ Includes(msg, "what level"))
    \/ (Includes(msg, "structure and accountability make a big difference")
        /\ Includes(msg, "what level"))

match_nutrition_guidance_preference(msg) ==
    \/ (Includes(msg, "very common") /\ Includes(msg, "especially at the start")
        /\ Includes(msg, "how would you like to get started"))
    \/ (Includes(msg, "knowing how much to eat")
        /\ Includes(msg, "how would you like to get started"))

match_nutrition_consistency_checkins(msg) ==
    \/ Includes(msg, "what level of accountability would help you stay on track")
    \/ Includes(msg, "what level of accountability")
    \/ (Includes(msg, "consistency usually improves")
        /\ Includes(msg, "what level of accountability"))
    \/ (Includes(msg, "regular accountability") /\ Includes(msg, "what level"))
    \/ (Includes(msg, "staying consistent") /\ Includes(msg, "what level of accountability"))

match_nutrition_meal_planning_preference(msg) ==
    \/ (Includes(msg, "meal planning") /\ Includes(msg, "food choices")
        /\ Includes(msg, "what would be most helpful"))
    \/ (Includes(msg, "meal planning") /\ Includes(msg, "what would be most helpful"))
    \/ (Includes(msg, "food choices") /\ Includes(msg, "what would be most helpful"))

match_nutrition_results_followup(msg) ==
    \/ Includes(msg, "what feels stalled")
    \/ (Includes(msg, "not seeing results") /\ Includes(msg, "what feels"))
    \/ (Includes(msg, "stalled") /\ Includes(msg, "what feels"))

match_nutrition_balancing_followup(msg) ==
    \/ (Includes(msg, "what makes it challenging")
        /\ (Includes(msg, "balancing") \/ Includes(msg, "food")
            \/ Includes(msg, "daily life")))
    \/ (Includes(msg, "balancing food with daily life") /\ Includes(msg, "what"))

match_struggles(msg) ==
    LET isNutritionStruggle ==
            /\ (Includes(msg, "nutrition") \/ Includes(msg, "food"))
            /\ (Includes(msg, "what feels hardest")
                \/ Includes(msg, "what feels most challenging"))
    IN  IF isNutritionStruggle THEN FALSE
        ELSE \/ Includes(msg, "what do you struggle with most")
             \/ (Includes(msg, "what do you struggle") /\ ~Includes(msg, "nutrition"))

match_program_structure_followup(msg) ==
    \/ Includes(msg, "what feels unclear about your program")
    \/ (Includes(msg, "unclear") /\ Includes(msg, "program") /\ Includes(msg, "right now"))

match_slow_progress_followup(msg) ==
    \/ Includes(msg, "what do you feel is holding your progress back")
    \/ (Includes(msg, "holding") /\ Includes(msg, "progress back") /\ Includes(msg, "most"))

match_technique_form_followup(msg) ==
    /\ Includes(msg, "what would you like help with most")
    /\ (Includes(msg, "technique") \/ Includes(msg, "form")
        \/ Includes(msg, "lift") \/ Includes(msg, "feedback"))

match_staying_consistent_followup_strength(msg) ==
    LET isNutritionContext ==
            /\ Includes(msg, "nutrition")
            /\ (Includes(msg, "struggle") \/ Includes(msg, "accountability"))
    IN  /\ (\/ Includes(msg, "what kind of support would help you most right now")
            \/ Includes(msg, "what kind of support would help you stay on track")
            \/ (Includes(msg, "what kind of support") /\ Includes(msg, "help you")))
        /\ ~isNutritionContext

match_strength_purpose(msg) ==
    \/ Includes(msg, "general health or to prepare for a competition")
    \/ Includes(msg, "general health or competition")
    \/ Includes(msg, "for general health or to prepare")
    \/ (Includes(msg, "general health") /\ Includes(msg, "competition"))
    \/ (Includes(msg, "getting stronger")
        /\ (Includes(msg, "general health") \/ Includes(msg, "competition")))

match_does_this_suit_you(msg) ==
    LET isOneToOneAddonQuestion ==
            /\ (Includes(msg, "1-to-1") \/ Includes(msg, "one-to-one"))
            /\ (Includes(msg, "add") \/ Includes(msg, "add-on") \/ Includes(msg, "adding"))
    IN  IF isOneToOneAddonQuestion THEN FALSE
        ELSE \/ Includes(msg, "does this suit you")
             \/ (Includes(msg, "suit you") /\ Includes(msg, "?"))

match_beginner_coaching_choice(msg) ==
    /\ (\/ Includes(msg, "would you prefer in-person or online")
        \/ (Includes(msg, "in-person") /\ Includes(msg, "online")
            /\ Includes(msg, "prefer") /\ Includes(msg, "?")))
    /\ (Includes(msg, "beginner") \/ Includes(msg, "club coaching")
        \/ Includes(msg, "technique") \/ Includes(msg, "confidence"))

match_one_to_one_addon_simple(msg) ==
    /\ (Includes(msg, "add 1-to-1") \/ Includes(msg, "add on") \/ Includes(msg, "add-on"))
    /\ (Includes(msg, "would you like") \/ Includes(msg, "interested"))
    /\ Includes(msg, "?")
    /\ ~Includes(msg, "club coaching would suit")
    /\ ~Includes(msg, "online coaching would suit")

(***************************************************************************)
(* The pattern table: id, label, options and priority of every entry of    *)
(* DISCOVERY_PATTERNS, in the order the table defines them.                *)
(***************************************************************************)

DISCOVERY_PATTERNS == <<
    [id |-> "package-type",
     label |-> "What would you like?",
     options |-> <<
          [value |-> "Training only", text |-> "Training only"],
          [value |-> "Full Athlete Package (training + nutrition)", text |-> "Full Athlete Package (training + nutrition)"]>>,
     priority |-> 10],
    [id |-> "check-in-frequency",
     label |-> "How often would you like check-ins?",
     options |-> <<
          [value |-> "Weekly check-ins", text |-> "Weekly"],
          [value |-> "Fortnightly check-ins", text |-> "Fortnightly"],
          [value |-> "Not sure / open to recommendations", text |-> "Not sure / open to recommendations"]>>,
     priority |-> 20],
    [id |-> "training-experience",
     label |-> "What is your training experience level?",
     options |-> <<
          [value |-> "Beginner", text |-> "Beginner"],
          [value |-> "Intermediate", text |-> "Intermediate"],
          [value |-> "Advanced or Competitive", text |-> "Advanced or Competitive"]>>,
     priority |-> 30],
    [id |-> "coaching-preference",
     label |-> "What is your coaching preference?",
     options |-> <<
          [value |-> "Online coaching", text |-> "Online coaching"],
          [value |-> "In-person coaching", text |-> "In-person coaching"],
          [value |-> "Not sure / open to recommendations", text |-> "Not sure / open to recommendations"]>>,
     priority |-> 60],
    [id |-> "services-interest",
     label |-> "What are you interested in?",
     options |-> <<
          [value |-> "I want to get stronger", text |-> "Build Strength"],
          [value |-> "I want to compete", text |-> "Competition Preparation"],
          [value |-> "I need help with nutrition", text |-> "Nutrition Coaching"]>>,
     priority |-> 5],
    [id |-> "one-to-one-addon",
     label |-> "Would you like to add 1-to-1 coaching?",
     options |-> <<
          [value |-> "Yes, add 1-to-1 coaching", text |-> "Yes, add 1-to-1 coaching"],
          [value |-> "No, just Club Coaching", text |-> "No, just Club Coaching"]>>,
     priority |-> 95],
    [id |-> "one-to-one-addon-online",
     label |-> "Would you like to add 1-to-1 coaching?",
     options |-> <<
          [value |-> "Yes, add 1-to-1 coaching", text |-> "Yes, add 1-to-1 coaching"],
          [value |-> "No, just Weekly Online Coaching", text |-> "No, just Weekly Online Coaching"]>>,
     priority |-> 96],
    [id |-> "nutrition-goal",
     label |-> "What is your nutrition goal?",
     options |-> <<
          [value |-> "Build muscle", text |-> "Build muscle"],
          [value |-> "Fat loss / body recomposition", text |-> "Fat loss / body recomposition"],
          [value |-> "Maintain weight / healthier lifestyle", text |-> "Maintain weight / healthier lifestyle"]>>,
     priority |-> 80],
    [id |-> "competed-before",
     label |-> "Have you competed before?",
     options |-> <<
          [value |-> "Yes, I've competed before", text |-> "Yes, I've competed before"],
          [value |-> "No, I'm a first time competitor", text |-> "No, I'm a first time competitor"]>>,
     priority |-> 90],
    [id |-> "nutrition-struggles-direct",
     label |-> "What do you struggle with most when it comes to nutrition?",
     options |-> <<
          [value |-> "Knowing how much to eat", text |-> "Knowing how much to eat"],
          [value |-> "Meal planning & food choices", text |-> "Meal planning & food choices"],
          [value |-> "Staying consistent", text |-> "Staying consistent"],
          [value |-> "Mostly want structure & check-ins", text |-> "Mostly want structure & check-ins"],
          [value |-> "Something else", text |-> "Something else"]>>,
     priority |-> 25],
    [id |-> "nutrition-structure-checkins",
     label |-> "What level of hands-on support would work best for you?",
     options |-> <<
          [value |-> "More hands-on support", text |-> "More hands-on support"],
          [value |-> "Balanced guidance", text |-> "Balanced guidance"],
          [value |-> "Light-touch support", text |-> "Light-touch support"]>>,
     priority |-> 22],
    [id |-> "nutrition-guidance-preference",
     label |-> "How would you like to get started?",
     options |-> <<
          [value |-> "Plan my meals", text |-> "Plan my meals"],
          [value |-> "Give me some direction", text |-> "Give me some direction"],
          [value |-> "Not sure yet", text |-> "Not sure yet"]>>,
     priority |-> 22],
    [id |-> "nutrition-consistency-checkins",
     label |-> "What level of accountability would help you stay on track?",
     options |-> <<
          [value |-> "Regular accountability", text |-> "Regular accountability"],
          [value |-> "Some guidance", text |-> "Some guidance"],
          [value |-> "Not sure yet", text |-> "Not sure yet"]>>,
     priority |-> 22],
    [id |-> "nutrition-meal-planning-preference",
     label |-> "What would be most helpful for your meal planning?",
     options |-> <<
          [value |-> "Help me meal plan", text |-> "Help me meal plan"],
          [value |-> "Help me fine-tune choices", text |-> "Help me fine-tune choices"],
          [value |-> "I want flexibility", text |-> "I want flexibility"]>>,
     priority |-> 22],
    [id |-> "nutrition-results-followup",
     label |-> "What feels stalled?",
     options |-> <<
          [value |-> "Fat loss", text |-> "Fat loss"],
          [value |-> "Body recomposition", text |-> "Body recomposition"],
          [value |-> "Energy levels", text |-> "Energy levels"],
          [value |-> "Strength / performance", text |-> "Strength / performance"],
          [value |-> "Something else", text |-> "Something else"]>>,
     priority |-> 23],
    [id |-> "nutrition-balancing-followup",
     label |-> "What makes it challenging?",
     options |-> <<
          [value |-> "Eating out / social events", text |-> "Eating out / social events"],
          [value |-> "Work or shift hours", text |-> "Work or shift hours"],
          [value |-> "Family or household meals", text |-> "Family or household meals"],
          [value |-> "Stress & fatigue", text |-> "Stress & fatigue"],
          [value |-> "Something else", text |-> "Something else"]>>,
     priority |-> 23],
    [id |-> "struggles",
     label |-> "What do you struggle with?",
     options |-> <<
          [value |-> "Program structure", text |-> "Program structure"],
          [value |-> "Slow progress", text |-> "Slow progress"],
          [value |-> "Technique & form", text |-> "Technique & form"],
          [value |-> "Staying consistent", text |-> "Staying consistent"],
          [value |-> "Something else", text |-> "Something else"]>>,
     priority |-> 25],
    [id |-> "program-structure-followup",
     label |-> "What feels unclear about your program right now?",
     options |-> <<
          [value |-> "I'm not sure how to progress", text |-> "I'm not sure how to progress"],
          [value |-> "I need a structured program", text |-> "I need a structured program"],
          [value |-> "Not sure yet", text |-> "Not sure yet"]>>,
     priority |-> 22],
    [id |-> "slow-progress-followup",
     label |-> "What do you feel is holding your progress back most?",
     options |-> <<
          [value |-> "Strength isn't increasing / stuck", text |-> "Strength isn't increasing / stuck"],
          [value |-> "I'm inconsistent", text |-> "I'm inconsistent"],
          [value |-> "Not sure yet", text |-> "Not sure yet"]>>,
     priority |-> 22],
    [id |-> "technique-form-followup",
     label |-> "What would you like help with most?",
     options |-> <<
          [value |-> "Not confident with my form", text |-> "Not confident with my form"],
          [value |-> "Feedback on lifts", text |-> "Feedback on lifts"],
          [value |-> "Not sure yet", text |-> "Not sure yet"]>>,
     priority |-> 22],
    [id |-> "staying-consistent-followup-strength",
     label |-> "What kind of support would help you most right now?",
     options |-> <<
          [value |-> "Regular accountability", text |-> "Regular accountability"],
          [value |-> "Some guidance", text |-> "Some guidance"],
          [value |-> "Not sure yet", text |-> "Not sure yet"]>>,
     priority |-> 22],
    [id |-> "strength-purpose",
     label |-> "Are you getting stronger for general health or to prepare for a competition?",
     options |-> <<
          [value |-> "General health", text |-> "General health"],
          [value |-> "Prepare for a competition", text |-> "Prepare for a competition"]>>,
     priority |-> 85],
    [id |-> "does-this-suit-you",
     label |-> "Does this suit you?",
     options |-> <<
          [value |-> "Yes, this suits me", text |-> "Yes, this suits me"],
          [value |-> "No, I'd prefer something else", text |-> "No, I'd prefer something else"]>>,
     priority |-> 92],
    [id |-> "beginner-coaching-choice",
     label |-> "Would you prefer in-person or online?",
     options |-> <<
          [value |-> "In-person club coaching", text |-> "In-person club coaching"],
          [value |-> "Online coaching", text |-> "Online coaching"]>>,
     priority |-> 88],
    [id |-> "one-to-one-addon-simple",
     label |-> "Would you like to add 1-to-1 coaching?",
     options |-> <<
          [value |-> "Yes, I'd like to add on", text |-> "Yes, I'd like to add on"],
          [value |-> "No", text |-> "No"]>>,
     priority |-> 93]
>>

\* pattern.match(message) of the i-th entry of DISCOVERY_PATTERNS.
match(i, msg) ==
    CASE i = 1 -> match_package_type(msg)
      [] i = 2 -> match_check_in_frequency(msg)
      [] i = 3 -> match_training_experience(msg)
      [] i = 4 -> match_coaching_preference(msg)
      [] i = 5 -> match_services_interest(msg)
      [] i = 6 -> match_one_to_one_addon(msg)
      [] i = 7 -> match_one_to_one_addon_online(msg)
      [] i = 8 -> match_nutrition_goal(msg)
      [] i = 9 -> match_competed_before(msg)
      [] i = 10 -> match_nutrition_struggles_direct(msg)
      [] i = 11 -> match_nutrition_structure_checkins(msg)
      [] i = 12 -> match_nutrition_guidance_preference(msg)
      [] i = 13 -> match_nutrition_consistency_checkins(msg)
      [] i = 14 -> match_nutrition_meal_planning_preference(msg)
      [] i = 15 -> match_nutrition_results_followup(msg)
      [] i = 16 -> match_nutrition_balancing_followup(msg)
      [] i = 17 -> match_struggles(msg)
      [] i = 18 -> match_program_structure_followup(msg)
      [] i = 19 -> match_slow_progress_followup(msg)
      [] i = 20 -> match_technique_form_followup(msg)
      [] i = 21 -> match_staying_consistent_followup_strength(msg)
      [] i = 22 -> match_strength_purpose(msg)
      [] i = 23 -> match_does_this_suit_you(msg)
      [] i = 24 -> match_beginner_coaching_choice(msg)
      [] i = 25 -> match_one_to_one_addon_simple(msg)

\* The comparator (a, b) => a.priority - b.priority, on table positions.
comparePriority(a, b) == DISCOVERY_PATTERNS[a].priority - DISCOVERY_PATTERNS[b].priority

\* A sort that is not stable: an element is placed before the elements it
\* compares equal to.
RECURSIVE insertSorted_unstable(_, _)
insertSorted_unstable(sorted, a) ==
    IF sorted = << >> THEN << a >>
    ELSE IF comparePriority(a, Head(sorted)) <= 0 THEN << a >> \o sorted
    ELSE << Head(sorted) >> \o insertSorted_unstable(Tail(sorted), a)

\* Array.prototype.sort is stable: an element is placed after every element
\* that does not compare greater than it.
RECURSIVE insertSorted(_, _)
insertSorted(sorted, a) ==
    IF sorted = << >> THEN << a >>
    ELSE IF comparePriority(a, Head(sorted)) < 0 THEN << a >> \o sorted
    ELSE << Head(sorted) >> \o insertSorted(Tail(sorted), a)

RECURSIVE sort(_)
sort(positions) ==
    IF positions = << >> THEN << >>
    ELSE insertSorted(sort(SubSeq(positions, 1, Len(positions) - 1)),
                      positions[Len(positions)])

\* [...DISCOVERY_PATTERNS].sort((a, b) => a.priority - b.priority), as the
\* sequence of table positions in sweep order.
SORTED_DISCOVERY_PATTERNS == sort([i \in 1..Len(DISCOVERY_PATTERNS) |-> i])

RECOMMENDATION_PATTERNS ==
    {"i recommend", "we recommend", "i'd recommend", "would recommend",
     "pricing", "per week", "would be a perfect fit", "perfect fit",
     "next step", "connect you", "take the next step"}

PERSONAL_INFO_PATTERNS ==
    {"your name", "what is your name", "what's your name", "may i have your name",
     "can i get your name", "phone number", "contact number", "contact details",
     "contact information", "email address", "how can we reach you",
     "best way to contact", "get in touch"}

WELCOME_MESSAGE ==
    "Welcome to Strength Club! I'm here if you have any questions about training, nutrition, or coaching. What can I help you with today?"

(***************************************************************************)
(* ChatApp.checkForDiscoveryQuestion                                       *)
(***************************************************************************)

\* The three exclusion rules, over the lower-cased message.
isHandoverSummary(message) ==
    /\ Includes(message, "name:") /\ Includes(message, "mobile:")
    /\ Includes(message, "goal:") /\ Includes(message, "plan:")

isRecommending(message) ==
    \/ SomeIncluded(message, RECOMMENDATION_PATTERNS)
    \/ (Includes(message, "recommend") /\ Includes(message, "for you"))

isCollectingInfo(message) == SomeIncluded(message, PERSONAL_INFO_PATTERNS)

\* The sweep: the first pattern of the sorted table whose predicate is true,
\* 0 when the loop runs off the end.
RECURSIVE firstMatch(_, _)
firstMatch(sortedPatterns, message) ==
    IF sortedPatterns = << >> THEN 0
    ELSE IF match(Head(sortedPatterns), message) THEN Head(sortedPatterns)
    ELSE firstMatch(Tail(sortedPatterns), message)

\* A driver that sweeps the table first and consults the exclusion rules only
\* when no pattern matched.
checkForDiscoveryQuestion_sweepFirst(botMessage) ==
    LET message == toLowerCase(botMessage)
        found == firstMatch(SORTED_DISCOVERY_PATTERNS, message)
    IN  IF found # 0 THEN found
        ELSE IF isHandoverSummary(message) THEN 0
        ELSE IF isRecommending(message) THEN 0
        ELSE IF isCollectingInfo(message) THEN 0
        ELSE 0

\* The table position of the pattern whose chips checkForDiscoveryQuestion
\* shows for botMessage, 0 when it hides the chips.
checkForDiscoveryQuestion(botMessage) ==
    LET message == toLowerCase(botMessage)
    IN  IF isHandoverSummary(message) THEN 0
        ELSE IF isRecommending(message) THEN 0
        ELSE IF isCollectingInfo(message) THEN 0
        ELSE firstMatch(SORTED_DISCOVERY_PATTERNS, message)

(***************************************************************************)
(* ChatApp.extractGoalAndPlan                                              *)
(***************************************************************************)

\* The contents of the turns of one role, in order (the forEach that fills
\* userMessages and assistantMessages; a turn of any other role, or of none,
\* is skipped).  A turn without content contributes undefined, which
\* Array.prototype.join turns into the empty string.
contentsOf(messages, role) ==
    LET picked == SelectSeq(messages,
                            LAMBDA msg : "role" \in DOMAIN msg /\ msg.role = role)
    IN  [i \in 1..Len(picked) |->
            IF "content" \in DOMAIN picked[i] THEN picked[i].content ELSE ""]

\* The experience level read from the lower-cased user text.
experienceLevelOf(fullUserText) ==
    IF Includes(fullUserText, "beginner") THEN "beginner"
    ELSE IF Includes(fullUserText, "intermediate") THEN "intermediate"
    ELSE IF Includes(fullUserText, "advanced") \/ Includes(fullUserText, "competitive")
    THEN "advanced"
    ELSE ""

\* A precedence list that tries the nutrition keywords before the strength
\* keywords.
goalKeywordOf_nutritionFirst(userText) ==
    IF Includes(userText, "compete") \/ Includes(userText, "competition")
    THEN "Competition prep"
    ELSE IF Includes(userText, "nutrition") \/ Includes(userText, "fat loss")
            \/ Includes(userText, "muscle gain")
    THEN "Nutrition Coaching"
    ELSE IF Includes(userText, "stronger") \/ Includes(userText, "strength")
            \/ Includes(userText, "powerlifting")
    THEN "Build strength"
    ELSE "General Inquiry"

\* The goal before the experience level is appended.
goalKeywordOf(userText) ==
    IF Includes(userText, "compete") \/ Includes(userText, "competition")
    THEN "Competition prep"
    ELSE IF Includes(userText, "stronger") \/ Includes(userText, "strength")
            \/ Includes(userText, "powerlifting")
    THEN "Build strength"
    ELSE IF Includes(userText, "nutrition") \/ Includes(userText, "fat loss")
            \/ Includes(userText, "muscle gain")
    THEN "Nutrition Coaching"
    ELSE "General Inquiry"

\* A goal that gets the experience level whatever it is.
goalOf_alwaysLevel(userMessages) ==
    LET userText == toLowerCase(join(userMessages))
        experienceLevel == experienceLevelOf(userText)
        goal == goalKeywordOf(userText)
    IN  IF experienceLevel # ""
        THEN goal \o " (" \o experienceLevel \o ")"
        ELSE goal

\* The goal of extractGoalAndPlan.
goalOf(userMessages) ==
    LET userText == toLowerCase(join(userMessages))
        experienceLevel == experienceLevelOf(userText)
        goal == goalKeywordOf(userText)
    IN  IF goal # "General Inquiry" /\ experienceLevel # ""
        THEN goal \o " (" \o experienceLevel \o ")"
        ELSE goal

\* A package test without the guard against 'full athlete'.
packageTypeOf_trainingFirst(fullText) ==
    IF Includes(fullText, "training only")
    THEN "Training only"
    ELSE IF Includes(fullText, "full athlete package") \/ Includes(fullText, "full athlete")
    THEN "Full Athlete Package"
    ELSE ""

packageTypeOf(fullText) ==
    IF Includes(fullText, "training only") /\ ~Includes(fullText, "full athlete")
    THEN "Training only"
    ELSE IF Includes(fullText, "full athlete package") \/ Includes(fullText, "full athlete")
    THEN "Full Athlete Package"
    ELSE ""

coachingPreferenceOf(fullText) ==
    IF Includes(fullText, "online coaching")
       \/ (Includes(fullText, "online") /\ Includes(fullText, "coaching"))
    THEN "Online coaching"
    ELSE IF Includes(fullText, "in-person coaching")
            \/ (Includes(fullText, "in-person") /\ Includes(fullText, "coaching"))
    THEN "In-person coaching"
    ELSE IF Includes(fullText, "club coaching")
    THEN "Club coaching"
    ELSE ""

checkInFrequencyOf(fullText) ==
    IF Includes(fullText, "weekly check-in") \/ Includes(fullText, "weekly check-ins")
       \/ (Includes(fullText, "weekly") /\ Includes(fullText, "check"))
    THEN "weekly check-ins"
    ELSE IF Includes(fullText, "fortnightly check-in")
            \/ Includes(fullText, "fortnightly check-ins")
            \/ (Includes(fullText, "fortnightly") /\ Includes(fullText, "check"))
    THEN "fortnightly check-ins"
    ELSE ""

\* A join that keeps the first detail only.
detailsOf_firstOnly(parts) ==
    LET details == SelectSeq(parts, LAMBDA d : d # "")
    IN  IF Len(details) = 0 THEN "" ELSE details[1]

\* details.join(', ') of the non-empty parts.
detailsOf(parts) ==
    LET details == SelectSeq(parts, LAMBDA d : d # "")
    IN  IF Len(details) = 0 THEN ""
        ELSE IF Len(details) = 1 THEN details[1]
        ELSE details[1] \o ", " \o details[2]

\* The plan of extractGoalAndPlan.
planOf(userMessages, assistantMessages) ==
    LET fullText == toLowerCase(join(userMessages))
        packageType == packageTypeOf(fullText)
        coachingPreference == coachingPreferenceOf(fullText)
        checkInFrequency == checkInFrequencyOf(fullText)
        assistantText == toLowerCase(join(assistantMessages))
    IN  IF packageType # ""
        THEN LET details == detailsOf(<< coachingPreference, checkInFrequency >>)
             IN  IF details # "" THEN packageType \o " (" \o details \o ")"
                 ELSE packageType
        ELSE IF coachingPreference # ""
        THEN LET details == detailsOf(<< checkInFrequency >>)
             IN  IF details # "" THEN coachingPreference \o " (" \o details \o ")"
                 ELSE coachingPreference
        ELSE IF Includes(assistantText, "online coaching") THEN "Online coaching"
        ELSE IF Includes(assistantText, "club coaching") THEN "Club coaching"
        ELSE IF Includes(assistantText, "nutrition coaching") THEN "Nutrition coaching"
        ELSE "Not specified"

\* The { goal, plan } extractGoalAndPlan returns once userMessages and
\* assistantMessages are filled.
goalAndPlan(userMessages, assistantMessages) ==
    [goal |-> goalOf(userMessages), plan |-> planOf(userMessages, assistantMessages)]

(***************************************************************************)
(* Bounds of the model and the inputs its environment draws from           *)
(***************************************************************************)

\* Chat requests posted in one run.
MaxSends == 2
\* Clicks on the New Chat button.
MaxNewChats == 1
\* Clicks on discovery chips.
MaxClicks == 1
\* Valid submissions of the escalation form.
MaxSubmits == 2
\* User actions of all these kinds together in one run.
MaxEvents == 3
\* Sentences per classified message.
MaxFragments == 2
\* Turns per extracted transcript.
MaxTurns == 3

\* Delays of the setTimeout calls, in milliseconds.
HideDelay == 50
ClassifyDelay == 100
ChipDelay == 150
ModalDelay == 500
EscalateDelay == 500

\* What the user types into the message box, the suggestion buttons, and
\* what the user enters as name and mobile number.
TypedTexts == {" I want to compete "}
Prompts == {"I want to compete"}
FormEntries == {<< " Jo ", "555-1234" >>, << " Jo ", " " >>}

\* The chips the user clicks: the first or the last one displayed.
ClickedChips(chips) == {1, Len(chips)}

\* The assistant replies /api/chat can return.
Responses ==
    {"What do you struggle with most?",
     "We offer online coaching and club coaching. What are you interested in?"}

\* The sentences the classified messages are made of.
Fragments ==
    {"I recommend our Online Coaching at $50 per week.",
     "I can recommend a plan for you.",
     "What is your phone number?",
     "Name: Jo\nMobile: 555-1234\nGoal: Build strength\nPlan: Online coaching",
     "Would you like Training only or the Full Athlete Package?",
     "We offer Online Coaching and Club Coaching.",
     "How often would you like check-ins - weekly or fortnightly?",
     "Got it, you mostly want structure. What level of accountability would help you stay on track?",
     "What do you struggle with most when it comes to nutrition?",
     "Have you competed before?",
     "Does this suit you?",
     "Would you like to add 1-to-1 coaching?",
     "Are you mainly looking for nutrition help?",
     "Thanks for sharing."}

\* The messages of up to n sentences.
RECURSIVE MessagesOf(_)
MessagesOf(n) ==
    IF n = 1 THEN Fragments
    ELSE MessagesOf(n - 1)
            \cup {m \o " " \o f : m \in MessagesOf(n - 1), f \in Fragments}

ClassifierInputs == MessagesOf(MaxFragments)

\* The turns the extracted transcripts are made of.
TurnPool ==
    {[role |-> "user", content |-> "I want to compete"],
     [role |-> "user", content |-> "I want to get stronger"],
     [role |-> "user", content |-> "I need help with Nutrition"],
     [role |-> "user", content |-> "Beginner"],
     [role |-> "user", content |-> "Intermediate"],
     [role |-> "user", content |-> "I am quite competitive"],
     [role |-> "user", content |-> "Advanced or Competitive"],
     [role |-> "user", content |-> "Full Athlete Package (training + nutrition)"],
     [role |-> "user", content |-> "Online coaching"],
     [role |-> "user", content |-> "hello"],
     [role |-> "assistant",
      content |-> "Name: Jo\nMobile: 555-1234\nGoal: Build strength\nPlan: Online coaching"],
     [role |-> "assistant", content |-> "Are you preparing for a competition?"],
     [role |-> "assistant", content |-> "Club Coaching suits a beginner."]}

\* The transcripts of up to n turns.
RECURSIVE TranscriptsOf(_)
TranscriptsOf(n) ==
    IF n = 0 THEN {<< >>}
    ELSE TranscriptsOf(n - 1)
            \cup {Append(t, turn) : t \in TranscriptsOf(n - 1), turn \in TurnPool}

\* The outcomes of fetch('/api/get_history') the extractor is run on.
ExtractorInputs ==
    [kind : {"ok"}, messages : TranscriptsOf(MaxTurns)]
        \cup {[kind |-> "nosuccess", messages |-> << >>],
              [kind |-> "throw", messages |-> << >>]}

\* The conversations /api/start_session and /api/get_history can return.
Turn(role, content) == [role |-> role, content |-> content]

Histories ==
    {<< >>,
     << Turn("assistant", "What do you struggle with most?"),
        Turn("user", "I want to get stronger") >>}

(***************************************************************************)
(* State of the controller                                                 *)
(***************************************************************************)

VARIABLES
    conversationId,        \* this.conversationId, 0 for null
    storedConversationId,  \* sessionStorage conversation_id, 0 when absent
    isEscalated,           \* this.isEscalated
    isTyping,              \* this.isTyping
    messages,              \* the .message elements of this.messages, in order
    messageInput,          \* this.messageInput.value
    inputVisible,          \* this.messageInput.style.display is not 'none'
    discoveryChips,        \* the options shown as chips, << >> when hidden
    somethingElseHandlers, \* handleSomethingElseSubmit listeners registered
    suggestionsShown,      \* this.suggestions.style.display is 'flex'
    modalOpen,             \* this.escalationModal.style.display is 'flex'
    escalationName,        \* value of the escalationName field
    escalationPhone,       \* value of the escalationPhone field
    sessionPc,             \* where startSession is: "load", "create", "done"
    chatInFlight,          \* /api/chat requests awaiting their reply
    newChatInFlight,       \* /api/new-chat requests awaiting their reply
    historyInFlight,       \* submitEscalation calls awaiting /api/get_history
    timers,                \* armed setTimeout callbacks, in creation order
    idsIssued,             \* conversation ids the server has handed out
    chatSent,              \* messages posted to /api/chat, in order
    escalateSent,          \* contact_info posted to /api/escalate, in order
    summaryLog,            \* handover summaries displayed, in order
    lastClassified,        \* argument of the last checkForDiscoveryQuestion
    extractCalls,          \* calls of extractGoalAndPlan so far
    alertShown,            \* submitEscalation raised its alert for the form as it stands
    modalShows,            \* number of showEscalationModal calls so far
    formClosedSince,       \* the escalation form was closed while isEscalated has been true
    clickedValue,          \* chip value clicked and not yet followed by a send
    newChats,              \* clicks on New Chat so far
    chipClicks,            \* clicks on chips so far
    classifierInput,       \* input of the classifier run
    classifierResult,      \* id of the pattern the classifier run matched
    cpc,                   \* classifier run: "idle", "call", "done"
    historyReply,          \* input of the extractor run
    profile,               \* result of the extractor run
    epc                    \* extractor run: "idle", "call", "done"

\* The user actions so far: messages posted, clicks on New Chat, clicks on
\* chips and valid submissions of the escalation form.
events == Len(chatSent) + newChats + chipClicks + extractCalls

uiVars == << messages, messageInput, inputVisible, discoveryChips,
             somethingElseHandlers, suggestionsShown, isTyping,
             chatInFlight, chatSent, clickedValue >>
sessionVars == << conversationId, storedConversationId, isEscalated, sessionPc,
                  newChatInFlight, idsIssued, newChats >>
modalVars == << modalOpen, escalationName, escalationPhone, formClosedSince >>
escalationVars == << historyInFlight, escalateSent, summaryLog, extractCalls,
                    alertShown, modalShows >>
classifyVars == << lastClassified >>
runVars == << classifierInput, classifierResult, cpc, historyReply, profile, epc >>
vars == << uiVars, sessionVars, modalVars, escalationVars, classifyVars, timers,
           chipClicks, runVars >>

(***************************************************************************)
(* The methods of ChatApp that run to completion without awaiting, as      *)
(* functions on the part of the state they read and write.                 *)
(***************************************************************************)

ui ==
    [messages |-> messages, messageInput |-> messageInput,
     inputVisible |-> inputVisible, discoveryChips |-> discoveryChips,
     somethingElseHandlers |-> somethingElseHandlers,
     suggestionsShown |-> suggestionsShown, isTyping |-> isTyping,
     chatInFlight |-> chatInFlight, chatSent |-> chatSent,
     clickedValue |-> clickedValue]

\* The state after a handler has run is the state it computed.
commit(after) ==
    \E st \in {after} :
        /\ Len(st.chatSent) <= MaxSends
        /\ Len(st.chatSent) + newChats + chipClicks + extractCalls <= MaxEvents
        /\ messages' = st.messages
        /\ messageInput' = st.messageInput
        /\ inputVisible' = st.inputVisible
        /\ discoveryChips' = st.discoveryChips
        /\ somethingElseHandlers' = st.somethingElseHandlers
        /\ suggestionsShown' = st.suggestionsShown
        /\ isTyping' = st.isTyping
        /\ chatInFlight' = st.chatInFlight
        /\ chatSent' = st.chatSent
        /\ clickedValue' = st.clickedValue

\* A hideDiscoveryChips that shows the message box again and leaves the
\* chips in their container.
hideDiscoveryChips_keepChips(st) ==
    [st EXCEPT !.inputVisible = TRUE]

hideDiscoveryChips(st) ==
    [st EXCEPT !.discoveryChips = << >>, !.inputVisible = TRUE]

\* A showDiscoveryChips that never hides the message box.
showDiscoveryChips_keepInput(st, label, options) ==
    [st EXCEPT !.discoveryChips = options, !.inputVisible = TRUE]

showDiscoveryChips(st, label, options) ==
    [st EXCEPT !.discoveryChips = options,
               !.inputVisible = (label = "What are you interested in?")]

\* addMessage gives the element the class user-message for role 'user' and
\* bot-message for any other role.
addMessage(st, role, content) ==
    [st EXCEPT !.messages =
        Append(@, Turn(IF role = "user" THEN "user" ELSE "assistant", content))]

\* A sendMessage that does not look at isTyping.
sendMessage_whileTyping(st, messageText) ==
    LET message == IF messageText # "" THEN messageText ELSE trim(st.messageInput)
    IN  IF message = "" \/ isEscalated THEN st
        ELSE [addMessage(hideDiscoveryChips(st), "user", message) EXCEPT
                !.suggestionsShown = FALSE,
                !.messageInput = "",
                !.isTyping = TRUE,
                !.chatInFlight =
                    Append(@, [message |-> message, session_id |-> conversationId]),
                !.chatSent = Append(@, message),
                !.clickedValue = ""]

\* sendMessage up to its await; messageText "" stands for the null default.
sendMessage(st, messageText) ==
    LET message == IF messageText # "" THEN messageText ELSE trim(st.messageInput)
    IN  IF message = "" \/ st.isTyping \/ isEscalated THEN st
        ELSE [addMessage(hideDiscoveryChips(st), "user", message) EXCEPT
                !.suggestionsShown = FALSE,
                !.messageInput = "",
                !.isTyping = TRUE,
                !.chatInFlight =
                    Append(@, [message |-> message, session_id |-> conversationId]),
                !.chatSent = Append(@, message),
                !.clickedValue = ""]

submitDiscovery(st, value) ==
    IF value = "" THEN st ELSE hideDiscoveryChips(sendMessage(st, value))

\* One registered handleSomethingElseSubmit listener, on an Enter keydown or
\* a form submit; it unregisters itself once it has submitted.
handleSomethingElseSubmit(st) ==
    LET userInput == trim(st.messageInput)
    IN  IF userInput # ""
        THEN [submitDiscovery(st, "Something else: " \o userInput) EXCEPT
                !.somethingElseHandlers = @ - 1]
        ELSE st

RECURSIVE runSomethingElseHandlers(_, _)
runSomethingElseHandlers(st, n) ==
    IF n = 0 THEN st
    ELSE runSomethingElseHandlers(handleSomethingElseSubmit(st), n - 1)

\* The listeners of the Enter keydown and of the form submit, in the order
\* they were registered: the one of setupEventListeners first.
dispatchSubmit(st) ==
    runSomethingElseHandlers(sendMessage(st, ""), st.somethingElseHandlers)

\* The texts the environment of the controller can produce, and what
\* checkForDiscoveryQuestion computes for each of them (computed once).
EnvironmentTexts ==
    {WELCOME_MESSAGE} \cup Responses
        \cup UNION {{h[i].content : i \in 1..Len(h)} : h \in Histories}

discoveryQuestionOf == [m \in EnvironmentTexts |-> checkForDiscoveryQuestion(m)]

\* A checkForDiscoveryQuestion that leaves the chips alone when no pattern
\* matches.
applyDiscoveryCheck_noHide(st, botMessage) ==
    LET i == IF botMessage \in EnvironmentTexts
             THEN discoveryQuestionOf[botMessage]
             ELSE checkForDiscoveryQuestion(botMessage)
    IN  IF i = 0 THEN st
        ELSE showDiscoveryChips(st, DISCOVERY_PATTERNS[i].label,
                                DISCOVERY_PATTERNS[i].options)

\* The effect of checkForDiscoveryQuestion(botMessage) on the chips.
applyDiscoveryCheck(st, botMessage) ==
    LET i == IF botMessage \in EnvironmentTexts
             THEN discoveryQuestionOf[botMessage]
             ELSE checkForDiscoveryQuestion(botMessage)
    IN  IF i = 0 THEN hideDiscoveryChips(st)
        ELSE showDiscoveryChips(st, DISCOVERY_PATTERNS[i].label,
                                DISCOVERY_PATTERNS[i].options)

\* A reload that finds no assistant message to restore the chips for.
lastAssistantMessage_none(history) == << >>

\* A reload that takes the last message of the history, whatever its role.
lastAssistantMessage_anyRole(history) ==
    IF Len(history) = 0 THEN << >> ELSE << history[Len(history)] >>

\* data.messages.filter(m => m.role === 'assistant').pop() of startSession.
lastAssistantMessage(history) ==
    LET assistant == SelectSeq(history, LAMBDA m : m.role = "assistant")
    IN  IF Len(assistant) = 0 THEN << >> ELSE << assistant[Len(assistant)] >>

\* The summary text of displayHandoverSummary.
handoverSummary(name, mobile, goal, plan) ==
    "Name: " \o name \o "\nMobile: " \o mobile \o "\nGoal: " \o goal
        \o "\nPlan: " \o plan

\* textContent of a rendered message: formatMessage turns every newline into
\* a <br> element, which has no text.  (The texts of this model contain no
\* asterisks and no HTML markup.)
RECURSIVE dropAt(_, _)
dropAt(s, breaks) ==
    IF breaks = {} THEN s
    ELSE \* the last position first, so the positions before it stay valid
         LET i == CHOOSE p \in breaks : \A q \in breaks : q <= p
         IN  dropAt(SubSeq(s, 1, i - 1) \o SubSeq(s, i + 1, Len(s)), breaks \ {i})

textContent(content) ==
    dropAt(content, {i \in 1..Len(content) : SubSeq(content, i, i) = "\n"})

domTurns(dom) == [i \in 1..Len(dom) |-> Turn(dom[i].role, textContent(dom[i].content))]

\* What extractGoalAndPlan computes from each conversation the server can
\* return (computed once).
goalAndPlanOf ==
    [h \in Histories |-> goalAndPlan(contentsOf(h, "user"), contentsOf(h, "assistant"))]

\* extractGoalAndPlan: reply is the outcome of fetch('/api/get_history'),
\* dom the .message elements the catch branch falls back to.
extractGoalAndPlan(reply, dom) ==
    IF reply.kind = "ok"
    THEN IF reply.messages \in Histories
         THEN goalAndPlanOf[reply.messages]
         ELSE goalAndPlan(contentsOf(reply.messages, "user"),
                          contentsOf(reply.messages, "assistant"))
    ELSE IF reply.kind = "nosuccess"
    THEN goalAndPlanOf[<< >>]
    ELSE IF reply.kind = "badturn"
    THEN \* the forEach throws at an element that is null, after it has pushed
         \* the turns before it; the catch branch pushes those of the page
         goalAndPlan(contentsOf(reply.messages, "user")
                        \o contentsOf(domTurns(dom), "user"),
                     contentsOf(reply.messages, "assistant")
                        \o contentsOf(domTurns(dom), "assistant"))
    ELSE goalAndPlan(contentsOf(domTurns(dom), "user"),
                     contentsOf(domTurns(dom), "assistant"))

\* An extractGoalAndPlan without the catch clause: what its try block
\* throws leaves the function.
extractionEnds_noCatch(reply) ==
    IF reply.kind \in {"throw", "badturn"} THEN "raised" ELSE "done"

\* How extractGoalAndPlan ends: its try block (the fetch, response.json()
\* and the forEach over data.messages) throws for the kinds "throw" and
\* "badturn"; the catch clause catches whatever is thrown, and nothing
\* outside the try block throws.
extractionEnds(reply) ==
    IF reply.kind \in {"throw", "badturn"} THEN "done" ELSE "done"

(***************************************************************************)
(* Timers                                                                  *)
(***************************************************************************)

NoInfo == [name |-> "", phone |-> "", goal |-> "", plan |-> ""]

Timer(kind, delay, text, info) ==
    [kind |-> kind, delay |-> delay, text |-> text, info |-> info]

Remove(seq, k) == SubSeq(seq, 1, k - 1) \o SubSeq(seq, k + 1, Len(seq))

\* Timers run in the order of their deadlines: a timer armed later with a
\* delay that is not shorter runs later.  Timer k can be the next callback
\* of its kind to run when no timer armed before it has a delay that is not
\* longer.
IsNextDue(k) ==
    /\ k \in 1..Len(timers)
    /\ \A j \in 1..(k - 1) : timers[j].delay > timers[k].delay

(***************************************************************************)
(* Initial state: the constructor has run init(), startSession() has       *)
(* issued its first request and awaits the reply.                          *)
(***************************************************************************)

InitSession ==
    /\ conversationId = 0
    /\ storedConversationId \in {0, 1}
    /\ sessionPc = IF storedConversationId = 0 THEN "create" ELSE "load"
    /\ idsIssued = 1
    /\ isEscalated = FALSE
    /\ isTyping = FALSE
    /\ messages = << >>
    /\ messageInput = ""
    /\ somethingElseHandlers = 0
    /\ suggestionsShown = TRUE
    /\ modalOpen = FALSE
    /\ escalationName = ""
    /\ escalationPhone = ""
    /\ chatInFlight = << >>
    /\ newChatInFlight = 0
    /\ historyInFlight = << >>
    /\ timers = << >>
    /\ chatSent = << >>
    /\ escalateSent = << >>
    /\ summaryLog = << >>
    /\ lastClassified = ""
    /\ extractCalls = 0
    /\ alertShown = FALSE
    /\ modalShows = 0
    /\ formClosedSince = FALSE
    /\ clickedValue = ""
    /\ newChats = 0
    /\ chipClicks = 0

InitController ==
    /\ InitSession
    /\ inputVisible = TRUE
    /\ discoveryChips = << >>

NoReply == [kind |-> "nosuccess", messages |-> << >>]
NoProfile == [goal |-> "", plan |-> ""]

Init ==
    /\ InitController
    /\ classifierInput = ""
    /\ classifierResult = "none"
    /\ cpc = "idle"
    /\ historyReply = NoReply
    /\ profile = NoProfile
    /\ epc = "idle"

(***************************************************************************)
(* startSession                                                            *)
(***************************************************************************)

\* The reply to load_existing says success and loaded.
StartSessionLoaded ==
    /\ sessionPc = "load"
    /\ \E history \in Histories, escalated \in BOOLEAN :
        /\ conversationId' = storedConversationId
        /\ storedConversationId' = storedConversationId
        /\ IF Len(history) > 0
           THEN LET shown == [[ui EXCEPT !.messages = << >>] EXCEPT
                                !.messages =
                                    [i \in 1..Len(history) |->
                                        Turn(IF history[i].role = "user"
                                             THEN "user" ELSE "assistant",
                                             history[i].content)],
                                !.suggestionsShown = FALSE]
                    last == lastAssistantMessage(history)
                IN  IF last # << >>
                    THEN /\ commit(applyDiscoveryCheck(shown, last[1].content))
                         /\ lastClassified' = last[1].content
                    ELSE /\ commit(shown)
                         /\ UNCHANGED classifyVars
           ELSE /\ commit(ui)
                /\ UNCHANGED classifyVars
        /\ isEscalated' = (isEscalated \/ escalated)
    /\ sessionPc' = "done"
    /\ UNCHANGED << newChatInFlight, idsIssued, newChats, modalVars, escalationVars,
                    timers, chipClicks, runVars >>

\* The reply to load_existing does not say loaded: a new session is requested.
StartSessionNotLoaded ==
    /\ sessionPc = "load"
    /\ sessionPc' = "create"
    /\ UNCHANGED << uiVars, conversationId, storedConversationId, isEscalated,
                    newChatInFlight, idsIssued, newChats, modalVars, escalationVars,
                    classifyVars, timers, chipClicks, runVars >>

\* The reply to the new-session request says success.
StartSessionCreated ==
    /\ sessionPc = "create"
    /\ idsIssued' = idsIssued + 1
    /\ conversationId' = idsIssued'
    /\ storedConversationId' = idsIssued'
    /\ commit([applyDiscoveryCheck(
                   addMessage([ui EXCEPT !.messages = << >>], "assistant",
                              WELCOME_MESSAGE),
                   WELCOME_MESSAGE)
               EXCEPT !.suggestionsShown = TRUE])
    /\ lastClassified' = WELCOME_MESSAGE
    /\ sessionPc' = "done"
    /\ UNCHANGED << isEscalated, newChatInFlight, newChats, modalVars,
                    escalationVars, timers, chipClicks, runVars >>

\* A request of startSession fails or its reply does not say success.
StartSessionFailed ==
    /\ sessionPc \in {"load", "create"}
    /\ sessionPc' = "done"
    /\ UNCHANGED << uiVars, conversationId, storedConversationId, isEscalated,
                    newChatInFlight, idsIssued, newChats, modalVars, escalationVars,
                    classifyVars, timers, chipClicks, runVars >>

(***************************************************************************)
(* startNewChat                                                            *)
(***************************************************************************)

ClickNewChat ==
    /\ ~modalOpen
    /\ newChats < MaxNewChats
    /\ events < MaxEvents
    /\ newChats' = newChats + 1
    /\ newChatInFlight' = newChatInFlight + 1
    /\ UNCHANGED << uiVars, conversationId, storedConversationId, isEscalated,
                    sessionPc, idsIssued, modalVars, escalationVars, classifyVars,
                    timers, chipClicks, runVars >>

NewChatReply ==
    /\ newChatInFlight > 0
    /\ newChatInFlight' = newChatInFlight - 1
    /\ \E success \in BOOLEAN :
        IF success
        THEN /\ idsIssued' = idsIssued + 1
             /\ conversationId' = idsIssued'
             /\ storedConversationId' = idsIssued'
             /\ isEscalated' = FALSE
             /\ commit([applyDiscoveryCheck(
                            addMessage([ui EXCEPT !.messages = << >>], "assistant",
                                       WELCOME_MESSAGE),
                            WELCOME_MESSAGE)
                        EXCEPT !.suggestionsShown = TRUE])
             /\ lastClassified' = WELCOME_MESSAGE
             /\ formClosedSince' = FALSE
        ELSE UNCHANGED << uiVars, conversationId, storedConversationId, isEscalated,
                          idsIssued, classifyVars, formClosedSince >>
    /\ UNCHANGED << sessionPc, newChats, modalOpen, escalationName, escalationPhone,
                    escalationVars, timers, chipClicks, runVars >>

(***************************************************************************)
(* Sending messages                                                        *)
(***************************************************************************)

\* The user edits the text of the message box.
TypeText ==
    /\ inputVisible
    /\ \E t \in TypedTexts :
        /\ messageInput # t
        /\ messageInput' = t
    /\ UNCHANGED << messages, inputVisible, discoveryChips, somethingElseHandlers,
                    suggestionsShown, isTyping, chatInFlight, chatSent, clickedValue,
                    sessionVars, modalVars, escalationVars, classifyVars, timers,
                    chipClicks, runVars >>

\* Enter without Shift in the message box.
PressEnter ==
    /\ inputVisible
    /\ commit(dispatchSubmit(ui))
    /\ UNCHANGED << sessionVars, modalVars, escalationVars, classifyVars, timers,
                    chipClicks, runVars >>

\* The submit event of chatForm (the send button).
SubmitChatForm ==
    /\ ~modalOpen
    /\ commit(dispatchSubmit(ui))
    /\ UNCHANGED << sessionVars, modalVars, escalationVars, classifyVars, timers,
                    chipClicks, runVars >>

\* A suggestion button: usePrompt(promptText).
usePrompt ==
    /\ ~modalOpen
    /\ suggestionsShown
    /\ \E promptText \in Prompts : commit(sendMessage(ui, promptText))
    /\ UNCHANGED << sessionVars, modalVars, escalationVars, classifyVars, timers,
                    chipClicks, runVars >>

\* The reply of an /api/chat request arrives and the rest of sendMessage runs.
ChatReply ==
    \E k \in 1..Len(chatInFlight) :
      LET request == chatInFlight[k]
          landed == [ui EXCEPT !.chatInFlight = Remove(@, k), !.isTyping = FALSE]
      IN
      /\ \/ \E response \in Responses, escalation_needed \in BOOLEAN :
              \* the reply carries the session_id of its request
              LET session_id == request.session_id
              IN
              /\ commit(addMessage(landed, "assistant", response))
              /\ IF session_id # 0
                 THEN /\ conversationId' = session_id
                      /\ storedConversationId' = session_id
                 ELSE UNCHANGED << conversationId, storedConversationId >>
              /\ isEscalated' = (isEscalated \/ escalation_needed)
              /\ timers' = timers
                    \o << Timer("classify", ClassifyDelay, response, NoInfo) >>
                    \o (IF escalation_needed
                        THEN << Timer("modal", ModalDelay, "", NoInfo) >>
                        ELSE << >>)
         \/ \* data.error, or the request or its parsing throws
            /\ commit(landed)
            /\ UNCHANGED << conversationId, storedConversationId, isEscalated, timers >>
      /\ UNCHANGED << sessionPc, newChatInFlight, idsIssued, newChats, modalVars,
                      escalationVars, classifyVars, chipClicks, runVars >>

\* The 100 ms timer of sendMessage: checkForDiscoveryQuestion(data.response).
ClassifyTimerFire ==
    \E k \in 1..Len(timers) :
        /\ IsNextDue(k)
        /\ timers[k].kind = "classify"
        /\ timers' = Remove(timers, k)
        /\ commit(applyDiscoveryCheck(ui, timers[k].text))
        /\ lastClassified' = timers[k].text
        /\ UNCHANGED << sessionVars, modalVars, escalationVars, chipClicks, runVars >>

(***************************************************************************)
(* Discovery chips                                                         *)
(***************************************************************************)

\* The click handler showDiscoveryChips gives each chip.
ClickChip ==
    /\ ~modalOpen
    /\ chipClicks < MaxClicks
    /\ events < MaxEvents
    /\ chipClicks' = chipClicks + 1
    /\ discoveryChips # << >>
    /\ \E i \in ClickedChips(discoveryChips) :
        LET option == discoveryChips[i]
        IN  IF option.value = "Something else"
            THEN /\ inputVisible' = TRUE
                 /\ somethingElseHandlers' = somethingElseHandlers + 1
                 /\ UNCHANGED << timers, clickedValue >>
            ELSE /\ timers' = Append(timers, Timer("chip", ChipDelay, option.value, NoInfo))
                 /\ clickedValue' = option.value
                 /\ UNCHANGED << inputVisible, somethingElseHandlers >>
    /\ UNCHANGED << messages, messageInput, discoveryChips, suggestionsShown, isTyping,
                    chatInFlight, chatSent, sessionVars, modalVars, escalationVars,
                    classifyVars, runVars >>

\* The 150 ms timer of a chip click: submitDiscovery(option.value).
ChipTimerFire ==
    \E k \in 1..Len(timers) :
        /\ IsNextDue(k)
        /\ timers[k].kind = "chip"
        /\ timers' = Remove(timers, k)
        /\ commit(submitDiscovery(ui, timers[k].text))
        /\ UNCHANGED << sessionVars, modalVars, escalationVars, classifyVars,
                        chipClicks, runVars >>

(***************************************************************************)
(* Escalation                                                              *)
(***************************************************************************)

\* A showEscalationModal that calls extractGoalAndPlan before it opens the
\* modal.
ModalTimerFire_extracts ==
    \E k \in 1..Len(timers) :
        /\ IsNextDue(k)
        /\ timers[k].kind = "modal"
        /\ timers' = Remove(timers, k)
        /\ modalOpen' = TRUE
        /\ extractCalls' = extractCalls + 1
        /\ UNCHANGED << uiVars, sessionVars, escalationName, escalationPhone,
                        formClosedSince,
                        historyInFlight, escalateSent, summaryLog, alertShown, classifyVars,
                        chipClicks, runVars >>
        /\ modalShows' = modalShows + 1

\* The 500 ms timer of sendMessage: showEscalationModal().
ModalTimerFire ==
    \E k \in 1..Len(timers) :
        /\ IsNextDue(k)
        /\ timers[k].kind = "modal"
        /\ timers' = Remove(timers, k)
        /\ modalOpen' = TRUE
        /\ modalShows' = modalShows + 1
        /\ UNCHANGED << uiVars, sessionVars, escalationName, escalationPhone,
                        formClosedSince,
                        historyInFlight, escalateSent, summaryLog, extractCalls,
                        alertShown, classifyVars, chipClicks, runVars >>

\* The user edits the fields of the escalation form.
FillEscalationForm ==
    /\ modalOpen
    /\ \E entry \in FormEntries :
        /\ entry # << escalationName, escalationPhone >>
        /\ escalationName' = entry[1]
        /\ escalationPhone' = entry[2]
    /\ alertShown' = FALSE
    /\ UNCHANGED << uiVars, sessionVars, modalOpen, formClosedSince, historyInFlight,
                    escalateSent,
                    summaryLog, extractCalls, modalShows, classifyVars, timers,
                    chipClicks, runVars >>

\* closeEscalationModal: the close button, Cancel, or a click on the overlay.
closeEscalationModal ==
    /\ modalOpen
    /\ modalOpen' = FALSE
    /\ formClosedSince' = isEscalated
    /\ escalationName' = ""
    /\ escalationPhone' = ""
    /\ alertShown' = FALSE
    /\ UNCHANGED << uiVars, sessionVars, historyInFlight, escalateSent, summaryLog,
                    extractCalls, modalShows, classifyVars, timers, chipClicks,
                    runVars >>

\* A submitEscalation that accepts empty required fields.
submitEscalation_noValidation ==
    /\ modalOpen
    /\ extractCalls < MaxSubmits
    /\ events < MaxEvents
    /\ historyInFlight' =
           Append(historyInFlight, [name |-> trim(escalationName),
                                    mobile |-> trim(escalationPhone)])
    /\ extractCalls' = extractCalls + 1
    /\ UNCHANGED << uiVars, sessionVars, modalVars, escalateSent, summaryLog,
                    alertShown, modalShows, classifyVars, timers, chipClicks,
                    runVars >>

\* submitEscalation up to its await: the submit event of escalationForm.
submitEscalation ==
    /\ modalOpen
    /\ LET name == trim(escalationName)
           mobile == trim(escalationPhone)
       IN  IF name = "" \/ mobile = ""
           THEN /\ alertShown' = TRUE
                /\ UNCHANGED << historyInFlight, extractCalls >>
           ELSE /\ extractCalls < MaxSubmits
                /\ UNCHANGED alertShown
                /\ events < MaxEvents
                /\ historyInFlight' =
                       Append(historyInFlight, [name |-> name, mobile |-> mobile])
                /\ extractCalls' = extractCalls + 1
    /\ UNCHANGED << uiVars, sessionVars, modalVars, escalateSent, summaryLog,
                    modalShows, classifyVars, timers, chipClicks, runVars >>

\* The outcomes of fetch('/api/get_history').
HistoryReplies ==
    [kind : {"ok"}, messages : Histories]
        \cup {[kind |-> "nosuccess", messages |-> << >>],
              [kind |-> "throw", messages |-> << >>]}

\* extractGoalAndPlan returns and submitEscalation resumes: it closes the
\* modal, displays the handover summary and arms the 500 ms timer that posts
\* the escalation.
SubmitEscalationResume ==
    \E k \in 1..Len(historyInFlight), reply \in HistoryReplies :
      \E extracted \in {extractGoalAndPlan(reply, messages)} :
      LET form == historyInFlight[k]
          summary == handoverSummary(form.name, form.mobile,
                                     extracted.goal, extracted.plan)
      IN
      /\ historyInFlight' = Remove(historyInFlight, k)
      /\ modalOpen' = FALSE
      /\ formClosedSince' = isEscalated
      /\ escalationName' = ""
      /\ escalationPhone' = ""
      /\ commit(addMessage(hideDiscoveryChips(ui), "assistant", summary))
      /\ summaryLog' = Append(summaryLog, summary)
      /\ timers' = timers
            \o << Timer("hide", HideDelay, "", NoInfo),
                  Timer("escalate", EscalateDelay, "",
                        [name |-> form.name, phone |-> form.mobile,
                         goal |-> extracted.goal, plan |-> extracted.plan]) >>
      /\ alertShown' = FALSE
      /\ UNCHANGED << sessionVars, escalateSent, extractCalls, modalShows,
                      classifyVars, chipClicks, runVars >>

\* The 50 ms timer of displayHandoverSummary: hideDiscoveryChips().
HideTimerFire ==
    \E k \in 1..Len(timers) :
        /\ IsNextDue(k)
        /\ timers[k].kind = "hide"
        /\ timers' = Remove(timers, k)
        /\ commit(hideDiscoveryChips(ui))
        /\ UNCHANGED << sessionVars, modalVars, escalationVars, classifyVars,
                        chipClicks, runVars >>

\* A POST that extracts goal and plan again, from the messages on the page
\* at the time it is sent.
EscalateTimerFire_reextract ==
    \E k \in 1..Len(timers) :
        /\ IsNextDue(k)
        /\ timers[k].kind = "escalate"
        /\ timers' = Remove(timers, k)
        /\ \E extracted \in {extractGoalAndPlan([kind |-> "throw", messages |-> << >>],
                                                 messages)} :
            escalateSent' = Append(escalateSent,
                                   [timers[k].info EXCEPT !.goal = extracted.goal,
                                                          !.plan = extracted.plan])
        /\ UNCHANGED << uiVars, sessionVars, modalVars, historyInFlight, summaryLog,
                        extractCalls, alertShown, modalShows, classifyVars, chipClicks,
                        runVars >>

\* The 500 ms timer of submitEscalation: the POST to /api/escalate.
EscalateTimerFire ==
    \E k \in 1..Len(timers) :
        /\ IsNextDue(k)
        /\ timers[k].kind = "escalate"
        /\ timers' = Remove(timers, k)
        /\ escalateSent' = Append(escalateSent, timers[k].info)
        /\ UNCHANGED << uiVars, sessionVars, modalVars, historyInFlight, summaryLog,
                        extractCalls, alertShown, modalShows, classifyVars, chipClicks,
                        runVars >>

Next ==
    \/ StartSessionLoaded
    \/ StartSessionNotLoaded
    \/ StartSessionCreated
    \/ StartSessionFailed
    \/ ClickNewChat
    \/ NewChatReply
    \/ TypeText
    \/ PressEnter
    \/ SubmitChatForm
    \/ usePrompt
    \/ ChatReply
    \/ ClassifyTimerFire
    \/ ClickChip
    \/ ChipTimerFire
    \/ ModalTimerFire
    \/ FillEscalationForm
    \/ closeEscalationModal
    \/ submitEscalation
    \/ SubmitEscalationResume
    \/ HideTimerFire
    \/ EscalateTimerFire

Spec == Init /\ [][Next]_vars

(***************************************************************************)
(* The classifier on its own: checkForDiscoveryQuestion is run once on a   *)
(* message, from a state in which chips are hidden or displayed.           *)
(***************************************************************************)

patternId(i) == IF i = 0 THEN "none" ELSE DISCOVERY_PATTERNS[i].id

\* The chips are hidden, or those of an earlier question are displayed.
InitClassify ==
    /\ InitSession
    /\ \/ /\ discoveryChips = << >>
          /\ inputVisible = TRUE
       \/ /\ discoveryChips = DISCOVERY_PATTERNS[1].options
          /\ inputVisible = FALSE
    /\ classifierInput \in ClassifierInputs
    /\ classifierResult = "none"
    /\ cpc = "call"
    /\ historyReply = NoReply
    /\ profile = NoProfile
    /\ epc = "idle"

ClassifyRun ==
    /\ cpc = "call"
    /\ \E i \in {checkForDiscoveryQuestion(classifierInput)} :
        /\ commit(IF i = 0 THEN hideDiscoveryChips(ui)
                  ELSE showDiscoveryChips(ui, DISCOVERY_PATTERNS[i].label,
                                          DISCOVERY_PATTERNS[i].options))
        /\ classifierResult' = patternId(i)
    /\ lastClassified' = classifierInput
    /\ cpc' = "done"
    /\ UNCHANGED << classifierInput, historyReply, profile, epc, sessionVars,
                    modalVars, escalationVars, timers, chipClicks >>

NextClassify == ClassifyRun

SpecClassify == InitClassify /\ [][NextClassify]_vars

(***************************************************************************)
(* The classifier on one question per pattern of the table, and on the     *)
(* wordings of the 1-to-1 add-on question that name online coaching.       *)
(***************************************************************************)

PatternExamples ==
    {"Would you like Training only or the Full Athlete Package?",
     "How often would you like check-ins?",
     "What is your training experience?",
     "What is your coaching preference?",
     "We offer online coaching and club coaching. What are you interested in?",
     "Are you adding one-to-one coaching?",
     "What is your nutrition goal?",
     "Have you competed before?",
     "What do you struggle with most when it comes to nutrition?",
     "Got it, you mostly want structure. What level of hands-on support would you like?",
     "Knowing how much to eat is tricky. How would you like to get started?",
     "What level of accountability would help you stay on track?",
     "Meal planning can be hard. What would be most helpful?",
     "What feels stalled?",
     "What makes it challenging to fit food into your day?",
     "What do you struggle with most?",
     "What feels unclear about your program?",
     "What do you feel is holding your progress back?",
     "What would you like help with most - technique or feedback?",
     "What kind of support would help you most right now?",
     "Are you training for general health or to prepare for a competition?",
     "Does this suit you?",
     "As a beginner, do you prefer online or in-person?",
     "Would you like to add 1-to-1 coaching?",
     "Would you like to add 1-to-1 coaching to your Online Coaching?",
     "Are you adding one-to-one coaching to your online coaching?",
     "Would you be adding 1-to-1 sessions to online coaching",
     "1-to-1 add-on for online coaching?",
     "Online coaching: are you interested in adding 1-to-1?",
     "Thanks for sharing."}

\* What checkForDiscoveryQuestion computes for each example (computed once).
selectedPattern == [m \in PatternExamples |-> checkForDiscoveryQuestion(m)]

InitSelect ==
    /\ InitSession
    /\ \/ /\ discoveryChips = << >>
          /\ inputVisible = TRUE
       \/ /\ discoveryChips = DISCOVERY_PATTERNS[1].options
          /\ inputVisible = FALSE
    /\ classifierInput \in PatternExamples
    /\ classifierResult = "none"
    /\ cpc = "call"
    /\ historyReply = NoReply
    /\ profile = NoProfile
    /\ epc = "idle"

SpecSelect == InitSelect /\ [][NextClassify]_vars

(***************************************************************************)
(* The classifier on the questions of the coaching flows: statements that  *)
(* mention check-ins, recommendations, the shared support template and the *)
(* beginner's choice of coaching.                                          *)
(***************************************************************************)

QuestionFragments ==
    {"How often would you like check-ins?",
     "Your coach will check in weekly or fortnightly.",
     "Check-in frequency is up to you.",
     "Based on what you've shared, a nutrition goal comes first.",
     "What kind of support would help you stay on track with your nutrition?",
     "What kind of support would help you most right now?",
     "Since you are a beginner, would you prefer in-person or online?"}

\* The messages of up to n sentences of QuestionFragments.
RECURSIVE QuestionsOf(_)
QuestionsOf(n) ==
    IF n = 1 THEN QuestionFragments
    ELSE QuestionsOf(n - 1)
            \cup {m \o " " \o f : m \in QuestionsOf(n - 1), f \in QuestionFragments}

InitQuestions ==
    /\ InitSession
    /\ \/ /\ discoveryChips = << >>
          /\ inputVisible = TRUE
       \/ /\ discoveryChips = DISCOVERY_PATTERNS[1].options
          /\ inputVisible = FALSE
    /\ classifierInput \in QuestionsOf(MaxFragments)
    /\ classifierResult = "none"
    /\ cpc = "call"
    /\ historyReply = NoReply
    /\ profile = NoProfile
    /\ epc = "idle"

SpecQuestions == InitQuestions /\ [][NextClassify]_vars

(***************************************************************************)
(* The extractor on its own: extractGoalAndPlan is run once on an outcome  *)
(* of the history request.                                                 *)
(***************************************************************************)

InitExtract ==
    /\ InitController
    /\ classifierInput = ""
    /\ classifierResult = "none"
    /\ cpc = "idle"
    /\ historyReply \in ExtractorInputs
    /\ profile = NoProfile
    /\ epc = "call"

ExtractRun ==
    /\ epc = "call"
    /\ profile' = extractGoalAndPlan(historyReply, messages)
    /\ epc' = extractionEnds(historyReply)
    /\ UNCHANGED << classifierInput, classifierResult, cpc, historyReply, uiVars,
                    sessionVars, modalVars, escalationVars, classifyVars, timers,
                    chipClicks >>

NextExtract == ExtractRun

SpecExtract == InitExtract /\ [][NextExtract]_vars

(***************************************************************************)
(* The extractor on conversations about the plan: the turns are chip       *)
(* values and sentences on packages, coaching modes and check-ins.         *)
(***************************************************************************)

PlanTurnPool ==
    {[role |-> "user", content |-> "Training only"],
     [role |-> "user", content |-> "Full Athlete Package (training + nutrition)"],
     [role |-> "user", content |-> "I'd like the full athlete package, not training only"],
     [role |-> "user", content |-> "Online coaching"],
     [role |-> "user", content |-> "In-person coaching"],
     [role |-> "user", content |-> "Club coaching"],
     [role |-> "user", content |-> "Weekly check-ins"],
     [role |-> "user", content |-> "Fortnightly check-ins"],
     [role |-> "user", content |-> "hello"],
     [role |-> "assistant", content |-> "We offer Online Coaching and Club Coaching."],
     [role |-> "assistant", content |-> "Club Coaching suits a beginner."],
     [role |-> "assistant", content |-> "Our Nutrition Coaching includes meal plans."]}

\* The conversations of up to n turns about the plan.
RECURSIVE PlanTranscriptsOf(_)
PlanTranscriptsOf(n) ==
    IF n = 0 THEN {<< >>}
    ELSE PlanTranscriptsOf(n - 1)
            \cup {Append(t, turn) : t \in PlanTranscriptsOf(n - 1), turn \in PlanTurnPool}

InitPlan ==
    /\ InitController
    /\ classifierInput = ""
    /\ classifierResult = "none"
    /\ cpc = "idle"
    /\ historyReply \in [kind : {"ok"}, messages : PlanTranscriptsOf(MaxTurns)]
    /\ profile = NoProfile
    /\ epc = "call"

SpecPlan == InitPlan /\ [][NextExtract]_vars

(***************************************************************************)
(* The extractor on replies that are not well formed, with a page that     *)
(* startSession may have filled from a stored conversation.                *)
(***************************************************************************)

\* Turns without content, without role or of another role, among others.
ReplyTurnPool ==
    {[role |-> "user", content |-> "I want to compete"],
     [role |-> "user"],
     [role |-> "system", content |-> "I want to get stronger"],
     [content |-> "Training only"],
     [role |-> "assistant", content |-> "We offer Online Coaching and Club Coaching."],
     [role |-> "assistant"]}

RECURSIVE ReplyTranscriptsOf(_)
ReplyTranscriptsOf(n) ==
    IF n = 0 THEN {<< >>}
    ELSE ReplyTranscriptsOf(n - 1)
            \cup {Append(t, turn) : t \in ReplyTranscriptsOf(n - 1), turn \in ReplyTurnPool}

\* The outcomes of fetch('/api/get_history'): a reply with messages, a reply
\* with messages of which one is null (messages holds those before it), a
\* reply without success or messages, and a fetch or a body that fails.
ReplyInputs ==
    [kind : {"ok", "badturn"}, messages : ReplyTranscriptsOf(MaxTurns)]
        \cup {[kind |-> "nosuccess", messages |-> << >>],
              [kind |-> "throw", messages |-> << >>]}

InitReplies ==
    /\ InitController
    /\ classifierInput = ""
    /\ classifierResult = "none"
    /\ cpc = "idle"
    /\ historyReply \in ReplyInputs
    /\ profile = NoProfile
    /\ epc = "call"

\* The page is filled before the extractor is called.
LoadPage ==
    /\ epc = "call"
    /\ StartSessionLoaded

NextReplies ==
    \/ LoadPage
    \/ ExtractRun

SpecReplies == InitReplies /\ [][NextReplies]_vars

(***************************************************************************)
(* Properties of the controller, under Spec                                *)
(***************************************************************************)

\* C3: an Enter or a form submit with a 'Something else' listener registered,
\* a non-blank text t in the message box, no request in flight and the chat
\* not escalated posts exactly one message, 'Something else: t'.
C3_SomethingElseCapture ==
    [][((PressEnter \/ SubmitChatForm)
            /\ somethingElseHandlers > 0
            /\ trim(messageInput) # ""
            /\ ~isTyping
            /\ ~isEscalated)
        => chatSent' = Append(chatSent, "Something else: " \o trim(messageInput))]_vars

\* C4: from the click on a chip of value v, the next message posted is v, and
\* the submission the click schedules posts it, in whatever state the chips
\* were displayed.
C4_ChipResubmission ==
    [][/\ (clickedValue # "" /\ chatSent' # chatSent)
            => chatSent' = Append(chatSent, clickedValue)
       /\ \A k \in 1..Len(timers) :
            (IsNextDue(k) /\ timers[k].kind = "chip" /\ timers' = Remove(timers, k))
                => chatSent' = Append(chatSent, timers[k].text)]_vars

\* The texts an assistant turn can have and the texts a user turn can have.
AssistantTexts ==
    {WELCOME_MESSAGE} \cup Responses
        \cup UNION {{h[i].content : i \in {j \in 1..Len(h) : h[j].role = "assistant"}} :
                    h \in Histories}

ChipValues ==
    UNION {{DISCOVERY_PATTERNS[i].options[j].value :
                j \in 1..Len(DISCOVERY_PATTERNS[i].options)} :
           i \in 1..Len(DISCOVERY_PATTERNS)}

UserTexts ==
    TypedTexts \cup {trim(t) : t \in TypedTexts} \cup Prompts \cup ChipValues
        \cup {"Something else: " \o trim(t) : t \in TypedTexts}
        \cup UNION {{h[i].content : i \in {j \in 1..Len(h) : h[j].role = "user"}} :
                    h \in Histories}

\* C5: every argument of checkForDiscoveryQuestion is the welcome message, a
\* chat response or an assistant message of a reloaded history, never the
\* text of a user turn; a step that posts a user turn does not classify and
\* leaves the chips hidden.
C5_ClassifierOnAssistantTextOnly ==
    [][/\ lastClassified' \in AssistantTexts \cup {""}
       /\ lastClassified' \notin UserTexts
       /\ chatSent' # chatSent =>
            /\ lastClassified' = lastClassified
            /\ discoveryChips' = << >>
            /\ \A k \in 1..Len(timers') : timers'[k] \in {timers[j] : j \in 1..Len(timers)}]_vars

\* A chip value was posted as a user turn and the classifier then ran on the
\* response to it.
C5_Witness ==
    /\ Len(chatSent) = 1
    /\ chatSent[1] \in ChipValues
    /\ Len(messages) >= 2
    /\ messages[Len(messages) - 1] = Turn("user", chatSent[1])
    /\ messages[Len(messages)].role = "assistant"
    /\ lastClassified = messages[Len(messages)].content
    /\ lastClassified \in Responses

\* The step leaves content as the last message of the page, put there as an
\* assistant message by this step.
AssistantAppended(content) ==
    /\ messages' # messages
    /\ Len(messages') > 0
    /\ messages'[Len(messages')] = Turn("assistant", content)

\* checkForDiscoveryQuestion(content) runs in the step or is scheduled by it.
ClassifiedOrScheduled(content) ==
    \/ lastClassified' = content
    \/ \E k \in 1..Len(timers') :
        /\ timers'[k] = Timer("classify", ClassifyDelay, content, NoInfo)
        /\ Len(timers') > Len(timers)

\* The step is a reload of a stored conversation that has messages.
Reloaded ==
    /\ sessionPc = "load"
    /\ sessionPc' = "done"
    /\ messages' # messages

LastAssistantContent(turns) ==
    LET assistant == SelectSeq(turns, LAMBDA m : m.role = "assistant")
    IN  IF assistant = << >> THEN "" ELSE assistant[Len(assistant)].content

\* C6 as stated: every step that appends an assistant message (the welcome
\* message, a chat response, the handover summary) classifies it or schedules
\* its classification, and a reload classifies the most recent assistant turn
\* of the loaded history.
C6_ClassifyAfterEveryAssistantMessage ==
    [][/\ \A content \in AssistantTexts \cup {summaryLog'[k] : k \in 1..Len(summaryLog')} :
            AssistantAppended(content) => ClassifiedOrScheduled(content)
       /\ (Reloaded /\ LastAssistantContent(messages') # "")
            => lastClassified' = LastAssistantContent(messages')]_vars

\* C6 as amended: the welcome message and every chat response are classified
\* or scheduled for classification by the step that appends them, and a
\* reload classifies the most recent assistant turn of the loaded history;
\* the step that appends a handover summary neither classifies it nor
\* schedules its classification, it hides the chips.
C6_ClassifyAfterAssistantMessageAmended ==
    [][/\ \A content \in AssistantTexts :
            AssistantAppended(content) => ClassifiedOrScheduled(content)
       /\ (Reloaded /\ LastAssistantContent(messages') # "")
            => lastClassified' = LastAssistantContent(messages')
       /\ summaryLog' # summaryLog =>
            /\ AssistantAppended(summaryLog'[Len(summaryLog')])
            /\ ~ClassifiedOrScheduled(summaryLog'[Len(summaryLog')])
            /\ discoveryChips' = << >>
            /\ inputVisible']_vars

\* A handover summary is the last message of the page, the chips are hidden,
\* no classification is scheduled and the last one was of another message.
C6_Witness ==
    /\ summaryLog # << >>
    /\ messages # << >>
    /\ messages[Len(messages)] = Turn("assistant", summaryLog[Len(summaryLog)])
    /\ lastClassified # summaryLog[Len(summaryLog)]
    /\ lastClassified # ""
    /\ \A k \in 1..Len(timers) : timers[k].kind # "classify"
    /\ discoveryChips = << >>

\* The text in which a handover summary shows name, mobile, goal and plan.
SummaryShowing(info) ==
    "Name: " \o info.name \o "\nMobile: " \o info.phone
        \o "\nGoal: " \o info.goal \o "\nPlan: " \o info.plan

\* The contact_info of the escalation requests posted and of those whose
\* POST is scheduled, in the order of their submission.
ScheduledEscalations ==
    LET pending == SelectSeq(timers, LAMBDA t : t.kind = "escalate")
    IN  escalateSent \o [k \in 1..Len(pending) |-> pending[k].info]

\* C7: the contact_info of the k-th escalation request, posted or scheduled,
\* carries the name, mobile, goal and plan the k-th handover summary shows,
\* and its name and mobile are trimmed values of the form.
C7_SummaryAndRequestAgree ==
    /\ Len(ScheduledEscalations) = Len(summaryLog)
    /\ \A k \in 1..Len(summaryLog) :
        \E info \in {ScheduledEscalations[k]} :
            /\ summaryLog[k] = SummaryShowing(info)
            /\ info.name \in {trim(entry[1]) : entry \in FormEntries}
            /\ info.phone \in {trim(entry[2]) : entry \in FormEntries}

\* An escalation request was posted with a goal extracted from the
\* conversation, after the page had lost the handover summary of its
\* submission to a new chat.
C7_Witness ==
    /\ escalateSent # << >>
    /\ escalateSent[1].goal = "Build strength"
    /\ escalateSent[1].name = "Jo"
    /\ messages # << >>
    /\ \A k \in 1..Len(messages) : messages[k].content # summaryLog[1]

\* C8 as stated: the step that opens the escalation modal calls
\* extractGoalAndPlan, and so does the step that posts the escalation request.
C8_ExtractBeforeOpenAndBeforeSubmit ==
    [][/\ (~modalOpen /\ modalOpen') => extractCalls' > extractCalls
       /\ Len(escalateSent') > Len(escalateSent) => extractCalls' > extractCalls]_vars

\* C8 as amended: extractGoalAndPlan is called once by each submission of the
\* escalation form whose trimmed name and mobile are not empty, and by no
\* other step: not when the modal opens, not when the summary is displayed
\* and not when the request is posted, which carries what that one call
\* returned.
C8_ExtractOncePerSubmissionAmended ==
    [][/\ (~modalOpen /\ modalOpen') => extractCalls' = extractCalls
       /\ Len(escalateSent') > Len(escalateSent) => extractCalls' = extractCalls
       /\ summaryLog' # summaryLog =>
            /\ extractCalls' = extractCalls
            /\ Len(historyInFlight') = Len(historyInFlight) - 1
       /\ extractCalls' # extractCalls =>
            /\ extractCalls' = extractCalls + 1
            /\ modalOpen /\ modalOpen'
            /\ trim(escalationName) # "" /\ trim(escalationPhone) # ""
            /\ historyInFlight' =
                   Append(historyInFlight, [name |-> trim(escalationName),
                                            mobile |-> trim(escalationPhone)])
       /\ extractCalls' = Len(historyInFlight') + Len(summaryLog')]_vars

\* The modal was opened, the form submitted and the request posted, with one
\* call of extractGoalAndPlan.
C8_Witness ==
    /\ escalateSent # << >>
    /\ Len(summaryLog) = 1
    /\ extractCalls = 1
    /\ ~modalOpen

(***************************************************************************)
(* Properties of the classifier, under SpecClassify                        *)
(***************************************************************************)

\* The exclusion rules as the specification words them, over the lower-cased
\* message.
ExclusionRuleFires(message) ==
    \/ /\ Includes(message, "name:") /\ Includes(message, "mobile:")
       /\ Includes(message, "goal:") /\ Includes(message, "plan:")
    \/ \E phrase \in RECOMMENDATION_PATTERNS : Includes(message, phrase)
    \/ (Includes(message, "recommend") /\ Includes(message, "for you"))
    \/ \E phrase \in PERSONAL_INFO_PATTERNS : Includes(message, phrase)

\* The table positions of the patterns whose predicate is true of message.
Matching(message) == {i \in 1..Len(DISCOVERY_PATTERNS) : match(i, message)}

\* C1: a message that satisfies an exclusion rule classifies to no match and
\* leaves the chips hidden, whether or not a pattern's predicate is true of it.
C1_ExclusionPrecedence ==
    cpc = "done" =>
        \A message \in {toLowerCase(classifierInput)} :
            ExclusionRuleFires(message) =>
                /\ classifierResult = "none"
                /\ discoveryChips = << >>
                /\ inputVisible

\* A classified message that fires an exclusion rule and also satisfies the
\* predicate of a pattern.
C1_Witness ==
    /\ cpc = "done"
    /\ \E message \in {toLowerCase(classifierInput)} :
        /\ ExclusionRuleFires(message)
        /\ Matching(message) # {}
    /\ classifierResult = "none"
    /\ discoveryChips = << >>

\* The matching pattern that is least in (priority, table position).
LeastMatching(matching) ==
    CHOOSE i \in matching :
        \A j \in matching :
            \/ DISCOVERY_PATTERNS[i].priority < DISCOVERY_PATTERNS[j].priority
            \/ /\ DISCOVERY_PATTERNS[i].priority = DISCOVERY_PATTERNS[j].priority
               /\ i <= j

\* C2: a message that fires no exclusion rule classifies to the matching
\* pattern that is least in (priority, table position), and to no match when
\* no pattern matches; the chips displayed are that pattern's options.
C2_PriorityOrdering ==
    cpc = "done" =>
        \A message \in {toLowerCase(classifierInput)} :
            ~ExclusionRuleFires(message) =>
                \A matching \in {Matching(message)} :
                    IF matching = {}
                    THEN classifierResult = "none" /\ discoveryChips = << >>
                    ELSE /\ classifierResult =
                                DISCOVERY_PATTERNS[LeastMatching(matching)].id
                         /\ discoveryChips =
                                DISCOVERY_PATTERNS[LeastMatching(matching)].options

\* A classified message of which two patterns of equal priority are true and
\* a third of lower priority value is not: the earlier of the two is returned.
C2_Witness ==
    /\ cpc = "done"
    /\ \E message \in {toLowerCase(classifierInput)} :
        /\ ~ExclusionRuleFires(message)
        /\ \E i, j \in Matching(message) :
            /\ i < j
            /\ DISCOVERY_PATTERNS[i].priority = DISCOVERY_PATTERNS[j].priority
            /\ classifierResult = DISCOVERY_PATTERNS[i].id

(***************************************************************************)
(* Properties of the extractor, under SpecExtract                          *)
(***************************************************************************)

\* The turns extractGoalAndPlan was given: those of the reply, none when the
\* reply carries none.
ExtractedTurns == IF historyReply.kind = "ok" THEN historyReply.messages ELSE << >>

\* The lower-cased, space-joined user turns.
UserTextOf(turns) == toLowerCase(join(contentsOf(turns, "user")))

\* The text of the handover line 'Goal: G' of an assistant message: what
\* follows the label up to the end of the line.
FirstIndexOf(text, pat) ==
    CHOOSE i \in 1..(Len(text) - Len(pat) + 1) :
        /\ SubSeq(text, i, i + Len(pat) - 1) = pat
        /\ \A j \in 1..(i - 1) : SubSeq(text, j, j + Len(pat) - 1) # pat

HandoverGoalOf(content) ==
    LET rest == SubSeq(content, FirstIndexOf(content, "Goal: ") + 6, Len(content))
    IN  IF Includes(rest, "\n") THEN SubSeq(rest, 1, FirstIndexOf(rest, "\n") - 1)
        ELSE rest

\* C9: when an assistant message of the transcript has a handover line
\* 'Goal: G', the extracted goal is G, whatever the user turns contain.
C9_GoalFromHandoverLine ==
    epc = "done" =>
        \A k \in 1..Len(ExtractedTurns) :
            (/\ ExtractedTurns[k].role = "assistant"
             /\ Includes(ExtractedTurns[k].content, "Goal: "))
                => profile.goal = HandoverGoalOf(ExtractedTurns[k].content)

\* No assistant turn of the transcript has a handover line 'Goal: G'.
NoHandoverGoalLine(turns) ==
    \A k \in 1..Len(turns) :
        turns[k].role = "assistant" => ~Includes(turns[k].content, "Goal: ")

ExperienceKeywords == {"beginner", "intermediate", "advanced", "competitive"}

\* The goal the keyword precedence list gives.
KeywordGoal(userText) ==
    IF Includes(userText, "compete") \/ Includes(userText, "competition")
    THEN "Competition prep"
    ELSE IF Includes(userText, "stronger") \/ Includes(userText, "strength")
            \/ Includes(userText, "powerlifting")
    THEN "Build strength"
    ELSE IF Includes(userText, "nutrition") \/ Includes(userText, "fat loss")
            \/ Includes(userText, "muscle gain")
    THEN "Nutrition Coaching"
    ELSE "General Inquiry"

\* C10 as stated: without a handover Goal line, the goal follows the keyword
\* precedence over the user text, and an experience-level keyword present in
\* the user text is appended to it in parentheses.
C10_GoalKeywordPrecedence ==
    (epc = "done" /\ NoHandoverGoalLine(ExtractedTurns)) =>
        \A userText \in {UserTextOf(ExtractedTurns)} :
            LET present == {k \in ExperienceKeywords : Includes(userText, k)}
            IN  IF present = {}
                THEN profile.goal = KeywordGoal(userText)
                ELSE \E k \in present :
                        profile.goal = KeywordGoal(userText) \o " (" \o k \o ")"

\* The suffix the extractor appends: the level, not the keyword, and only to
\* a goal a keyword gave.
LevelSuffix(userText) ==
    IF KeywordGoal(userText) = "General Inquiry" THEN ""
    ELSE IF Includes(userText, "beginner") THEN " (beginner)"
    ELSE IF Includes(userText, "intermediate") THEN " (intermediate)"
    ELSE IF Includes(userText, "advanced") \/ Includes(userText, "competitive")
    THEN " (advanced)"
    ELSE ""

\* C10 as amended: without a handover Goal line, the goal follows the keyword
\* precedence over the user text alone; a goal other than 'General Inquiry'
\* gets the level ' (beginner)', else ' (intermediate)', else ' (advanced)'
\* for 'advanced' or 'competitive'.
C10_GoalKeywordPrecedenceAmended ==
    (epc = "done" /\ NoHandoverGoalLine(ExtractedTurns)) =>
        \A userText \in {UserTextOf(ExtractedTurns)} :
            profile.goal = KeywordGoal(userText) \o LevelSuffix(userText)

\* An extraction from user turns with a strength keyword and 'competitive' as
\* the only experience keyword.
C10_Witness ==
    /\ epc = "done"
    /\ NoHandoverGoalLine(ExtractedTurns)
    /\ \E k \in 1..Len(ExtractedTurns) : ExtractedTurns[k].role = "assistant"
    /\ \E userText \in {UserTextOf(ExtractedTurns)} :
        /\ Includes(userText, "competitive")
        /\ ~Includes(userText, "advanced")
        /\ ~Includes(userText, "beginner")
        /\ ~Includes(userText, "intermediate")
        /\ KeywordGoal(userText) = "Build strength"
    /\ profile.goal = "Build strength (advanced)"

(***************************************************************************)
(* Properties of the extractor's plan, under SpecPlan                      *)
(***************************************************************************)

AssistantTextOf(turns) == toLowerCase(join(contentsOf(turns, "assistant")))

\* The package, the coaching mode and the check-in cadence a user text
\* names, each looked for on its own.
PackageIn(userText) ==
    IF Includes(userText, "full athlete") THEN "Full Athlete Package"
    ELSE IF Includes(userText, "training only") THEN "Training only"
    ELSE ""

ModeIn(userText) ==
    IF Includes(userText, "online") /\ Includes(userText, "coaching")
    THEN "Online coaching"
    ELSE IF Includes(userText, "in-person") /\ Includes(userText, "coaching")
    THEN "In-person coaching"
    ELSE IF Includes(userText, "club coaching") THEN "Club coaching"
    ELSE ""

CadenceIn(userText) ==
    IF Includes(userText, "weekly") /\ Includes(userText, "check")
    THEN "weekly check-ins"
    ELSE IF Includes(userText, "fortnightly") /\ Includes(userText, "check")
    THEN "fortnightly check-ins"
    ELSE ""

\* The coaching product the assistant text names, in the order the plan
\* prefers them.
ProductIn(assistantText) ==
    IF Includes(assistantText, "online coaching") THEN "Online coaching"
    ELSE IF Includes(assistantText, "club coaching") THEN "Club coaching"
    ELSE IF Includes(assistantText, "nutrition coaching") THEN "Nutrition coaching"
    ELSE "Not specified"

\* head, followed by the non-empty ones of its details in parentheses.
WithDetails(head, first, second) ==
    IF first # "" /\ second # "" THEN head \o " (" \o first \o ", " \o second \o ")"
    ELSE IF first # "" THEN head \o " (" \o first \o ")"
    ELSE IF second # "" THEN head \o " (" \o second \o ")"
    ELSE head

\* C11: the plan is '<package> (<mode>, <cadence>)' with the empty parts left
\* out; without a package it is '<mode> (<cadence>)'; without package and
\* mode it is the product the assistant text names, else 'Not specified', and
\* the cadence does not appear.
C11_PlanComposition ==
    epc = "done" =>
        \A userText \in {UserTextOf(ExtractedTurns)} :
            LET package == PackageIn(userText)
                mode == ModeIn(userText)
                cadence == CadenceIn(userText)
            IN  profile.plan =
                    IF package # "" THEN WithDetails(package, mode, cadence)
                    ELSE IF mode # "" THEN WithDetails(mode, cadence, "")
                    ELSE ProductIn(AssistantTextOf(ExtractedTurns))

\* An extraction that found a package, a mode and a cadence.
C11_Witness ==
    /\ epc = "done"
    /\ \E userText \in {UserTextOf(ExtractedTurns)} :
        /\ PackageIn(userText) = "Training only"
        /\ ModeIn(userText) = "In-person coaching"
        /\ CadenceIn(userText) = "fortnightly check-ins"
    /\ profile.plan = "Training only (In-person coaching, fortnightly check-ins)"

\* text begins with prefix.
BeginsWith(text, prefix) ==
    /\ Len(text) >= Len(prefix)
    /\ SubSeq(text, 1, Len(prefix)) = prefix

\* C12: a user text that contains 'full athlete' gives a plan that begins
\* with 'Full Athlete Package'; the plan begins with 'Training only' exactly
\* when the user text contains 'training only' and not 'full athlete'.
C12_PackagePrecedence ==
    epc = "done" =>
        \A userText \in {UserTextOf(ExtractedTurns)} :
            /\ Includes(userText, "full athlete")
                => BeginsWith(profile.plan, "Full Athlete Package")
            /\ BeginsWith(profile.plan, "Training only")
                <=> (Includes(userText, "training only")
                        /\ ~Includes(userText, "full athlete"))

\* The user chose 'Training only' in one turn and the full athlete package
\* in a later one.
C12_Witness ==
    /\ epc = "done"
    /\ \E i, j \in 1..Len(ExtractedTurns) :
        /\ i < j
        /\ ExtractedTurns[i] = [role |-> "user", content |-> "Training only"]
        /\ ExtractedTurns[j] = [role |-> "user",
                                content |-> "Full Athlete Package (training + nutrition)"]
    /\ BeginsWith(profile.plan, "Full Athlete Package")

(***************************************************************************)
(* Defaults of the extractor, under SpecExtract                            *)
(***************************************************************************)

GoalKeywords ==
    {"compete", "competition", "stronger", "strength", "powerlifting",
     "nutrition", "fat loss", "muscle gain"}

\* Neither a goal keyword nor a package nor a coaching mode occurs in the
\* user text, and the assistant text names no coaching product.
NothingToExtract(turns) ==
    /\ \A userText \in {UserTextOf(turns)} :
        /\ \A keyword \in GoalKeywords : ~Includes(userText, keyword)
        /\ PackageIn(userText) = ""
        /\ ModeIn(userText) = ""
    /\ ProductIn(AssistantTextOf(turns)) = "Not specified"

\* C13: from the empty transcript, and from a transcript whose user text has
\* no goal, package or mode keyword and whose assistant text names no
\* coaching product, the extractor returns goal 'General Inquiry' and plan
\* 'Not specified'.
C13_ExtractorDefaults ==
    (epc = "done" /\ NothingToExtract(ExtractedTurns)) =>
        profile = [goal |-> "General Inquiry", plan |-> "Not specified"]

\* The defaults were returned for a conversation with an assistant turn and
\* a user turn that names an experience level.
C13_Witness ==
    /\ epc = "done"
    /\ NothingToExtract(ExtractedTurns)
    /\ \E k \in 1..Len(ExtractedTurns) : ExtractedTurns[k].role = "assistant"
    /\ Includes(UserTextOf(ExtractedTurns), "beginner")
    /\ profile = [goal |-> "General Inquiry", plan |-> "Not specified"]

(***************************************************************************)
(* Totality of the extractor, under SpecReplies                            *)
(***************************************************************************)

\* The turns of role user or assistant, a missing content read as empty.
UsableTurns(turns) ==
    LET usable == SelectSeq(turns, LAMBDA t : "role" \in DOMAIN t
                                              /\ t.role \in {"user", "assistant"})
    IN  [k \in 1..Len(usable) |->
            [role |-> usable[k].role,
             content |-> IF "content" \in DOMAIN usable[k] THEN usable[k].content
                         ELSE ""]]

\* The goal and the plan the keyword rules give for well-formed turns.
ProfileOf(turns) ==
    LET userText == UserTextOf(turns)
        package == PackageIn(userText)
        mode == ModeIn(userText)
        cadence == CadenceIn(userText)
    IN  [goal |-> KeywordGoal(userText) \o LevelSuffix(userText),
         plan |-> IF package # "" THEN WithDetails(package, mode, cadence)
                  ELSE IF mode # "" THEN WithDetails(mode, cadence, "")
                  ELSE ProductIn(AssistantTextOf(turns))]

PackageKeywords == {"training only", "training-only", "full athlete package"}

PackageQuestionCues == {"would you", "prefer", "choose", "interested in", "which"}

\* The phrases by which the package-type pattern leaves a goal-classification
\* question alone.
PackageGoalExclusion(message) ==
    \/ Includes(message, "getting stronger")
    \/ Includes(message, "preparing for a competition")
    \/ /\ Includes(message, "nutrition support")
       /\ ~Includes(message, "includes nutrition support")
       /\ ~Includes(message, "full athlete package")
    \/ /\ Includes(message, "mainly looking for")
       /\ \/ Includes(message, "stronger")
          \/ Includes(message, "competition")
          \/ Includes(message, "nutrition")

PackageOptions ==
    <<[value |-> "Training only", text |-> "Training only"],
      [value |-> "Full Athlete Package (training + nutrition)",
       text |-> "Full Athlete Package (training + nutrition)"]>>

\* C16: a message with a package keyword and a question cue that fires no
\* exclusion rule, has none of package-type's goal-classification exclusions
\* and does not match services-interest classifies to package-type, with
\* exactly the options 'Training only' and 'Full Athlete Package (training +
\* nutrition)'; so does 'Would you like Training only or the Full Athlete
\* Package?'.
C16_PackageTypeQuestion ==
    cpc = "done" =>
        \A message \in {toLowerCase(classifierInput)} :
            /\ ( /\ SomeIncluded(message, PackageKeywords)
                 /\ SomeIncluded(message, PackageQuestionCues)
                 /\ ~ExclusionRuleFires(message)
                 /\ ~PackageGoalExclusion(message)
                 /\ ~match_services_interest(message) ) =>
                    /\ classifierResult = "package-type"
                    /\ discoveryChips = PackageOptions
            /\ classifierInput
                    = "Would you like Training only or the Full Athlete Package?" =>
                    /\ classifierResult = "package-type"
                    /\ discoveryChips = PackageOptions

\* A classified package question of which a pattern of greater priority
\* value is true as well: package-type is returned.
C16_Witness ==
    /\ cpc = "done"
    /\ \E message \in {toLowerCase(classifierInput)} :
        /\ SomeIncluded(message, PackageKeywords)
        /\ SomeIncluded(message, PackageQuestionCues)
        /\ ~ExclusionRuleFires(message)
        /\ ~match_services_interest(message)
        /\ \E i \in Matching(message) : DISCOVERY_PATTERNS[i].priority > 10
    /\ classifierResult = "package-type"
    /\ discoveryChips = PackageOptions

(***************************************************************************)
(* Chips and the message box, under Spec                                   *)
(***************************************************************************)

\* The options of the pattern that is displayed with the message box.
ServicesInterestOptions ==
    DISCOVERY_PATTERNS[CHOOSE i \in 1..Len(DISCOVERY_PATTERNS) :
                            DISCOVERY_PATTERNS[i].id = "services-interest"].options

\* C17 as the specification states it: while chips are displayed and no chip
\* has been chosen, the message box is hidden.
C17_ChipsReplaceTextBox ==
    (discoveryChips # << >> /\ chipClicks = 0) => ~inputVisible

\* C17, amended: a step leaves chips displayed together with the message box
\* only when the chips are those of services-interest, when the step is the
\* click of the 'Something else' chip, or when both were displayed before the
\* step and the chips are the same; in every other state with chips the
\* message box is hidden.
C17_ChipsReplaceTextBoxAmended ==
    [][(discoveryChips' # << >> /\ inputVisible') =>
            \/ discoveryChips' = ServicesInterestOptions
            \/ /\ somethingElseHandlers' = somethingElseHandlers + 1
               /\ discoveryChips' = discoveryChips
               /\ \E i \in 1..Len(discoveryChips) :
                    discoveryChips[i].value = "Something else"
            \/ /\ inputVisible
               /\ discoveryChips' = discoveryChips
               /\ somethingElseHandlers > 0]_vars

\* The chips of a matched pattern other than services-interest are displayed
\* and the message box is hidden.
C17_Witness ==
    /\ discoveryChips # << >>
    /\ discoveryChips # ServicesInterestOptions
    /\ lastClassified \in AssistantTexts
    /\ discoveryQuestionOf[lastClassified] # 0
    /\ discoveryChips = DISCOVERY_PATTERNS[discoveryQuestionOf[lastClassified]].options
    /\ ~inputVisible

(***************************************************************************)
(* The escalation form, under Spec                                         *)
(***************************************************************************)

\* The form holds a name or a mobile number that is empty once trimmed.
FormIncomplete == trim(escalationName) = "" \/ trim(escalationPhone) = ""

\* C18: the submission of a form whose trimmed name or mobile is empty raises
\* the alert and changes nothing else: no summary, no request posted or
\* scheduled, no call of the extractor, the modal open as before, isEscalated
\* and the form as before; the extractor is called, a summary displayed and a
\* request scheduled or posted only with a name and a mobile that are not
\* empty.
C18_EscalationFormValidation ==
    [][/\ (~alertShown /\ alertShown') =>
            /\ FormIncomplete
            /\ modalOpen /\ modalOpen'
            /\ UNCHANGED << summaryLog, escalateSent, extractCalls, historyInFlight,
                            timers, isEscalated, escalationName, escalationPhone,
                            messages, discoveryChips >>
       /\ FormIncomplete =>
            /\ extractCalls' = extractCalls
            /\ Len(historyInFlight') <= Len(historyInFlight)
       /\ \A k \in 1..Len(historyInFlight') :
            historyInFlight'[k].name # "" /\ historyInFlight'[k].mobile # ""
       /\ \A k \in 1..Len(ScheduledEscalations') :
            ScheduledEscalations'[k].name # "" /\ ScheduledEscalations'[k].phone # ""
       /\ Len(summaryLog') <= extractCalls']_vars

\* The form was submitted with a name and a blank mobile number: the alert
\* was raised, the modal is still open, and nothing was extracted, displayed
\* or posted.
C18_Witness ==
    /\ alertShown
    /\ modalOpen
    /\ trim(escalationName) # ""
    /\ trim(escalationPhone) = ""
    /\ extractCalls = 0
    /\ summaryLog = << >>
    /\ escalateSent = << >>
    /\ isEscalated

(***************************************************************************)
(* New Chat, under Spec                                                    *)
(***************************************************************************)

\* The page shows a fresh conversation: the welcome message alone, not
\* escalated, under the id the server issued last.
FreshChat ==
    /\ messages = << Turn("assistant", WELCOME_MESSAGE) >>
    /\ ~isEscalated
    /\ conversationId = idsIssued
    /\ storedConversationId = idsIssued

\* C19: a successful startNewChat leaves a fresh conversation, and once the
\* new chat is fresh (New Chat clicked and answered, startSession finished)
\* every step keeps it fresh, except the step by which the user sends a
\* message; a /api/chat response of the previous conversation that arrives
\* after the click is such a step.
C19_NewChatStartsFresh ==
    [][/\ (newChatInFlight' < newChatInFlight /\ idsIssued' = idsIssued + 1) =>
            FreshChat'
       /\ (FreshChat /\ newChats > 0 /\ newChatInFlight = 0 /\ sessionPc = "done") =>
            (FreshChat' \/ Len(chatSent') > Len(chatSent))]_vars

\* What the classifier finds in the welcome message.
WelcomeFindings ==
    LET message == toLowerCase(WELCOME_MESSAGE)
    IN  [welcome |-> Includes(message, "welcome"),
         helpCue |-> Includes(message, "what can i help")
                        \/ Includes(message, "questions about"),
         servicesInterest |-> match_services_interest(message),
         exclusion |-> ExclusionRuleFires(message),
         matching |-> Matching(message),
         result |-> checkForDiscoveryQuestion(WELCOME_MESSAGE)]

\* C20: the welcome message fires no exclusion rule and satisfies no pattern
\* (services-interest is false of it), so it classifies to no match, and the
\* step by which startNewChat succeeds shows the welcome message, classifies
\* it, and leaves no chips displayed and the message box visible.
C20_WelcomeIsNoDiscoveryQuestion ==
    [][(newChatInFlight' < newChatInFlight /\ idsIssued' = idsIssued + 1) =>
            /\ WelcomeFindings.welcome /\ WelcomeFindings.helpCue
            /\ ~WelcomeFindings.servicesInterest
            /\ ~WelcomeFindings.exclusion
            /\ WelcomeFindings.matching = {}
            /\ WelcomeFindings.result = 0
            /\ messages' = << Turn("assistant", WELCOME_MESSAGE) >>
            /\ lastClassified' = WELCOME_MESSAGE
            /\ discoveryChips' = << >>
            /\ inputVisible']_vars

\* A new chat has just started after a reply of the previous conversation
\* had been classified: the page shows the welcome message alone, it was the
\* last message classified, no chips are displayed and the message box is
\* visible.
C20_Witness ==
    /\ newChats > 0
    /\ newChatInFlight = 0
    /\ conversationId = idsIssued
    /\ messages = << Turn("assistant", WELCOME_MESSAGE) >>
    /\ lastClassified = WELCOME_MESSAGE
    /\ chatSent # << >>
    /\ chatInFlight = << >>
    /\ timers = << >>
    /\ discoveryChips = << >>
    /\ inputVisible

(***************************************************************************)
(* The patterns one by one, under SpecClassify                             *)
(***************************************************************************)

\* The table positions of the follow-up patterns of priority 22 to 25.
FollowUpBand ==
    {i \in 1..Len(DISCOVERY_PATTERNS) :
        DISCOVERY_PATTERNS[i].priority >= 22 /\ DISCOVERY_PATTERNS[i].priority <= 25}

\* C21: the follow-up patterns of priority 22 to 25 are mutually exclusive:
\* the predicates of two of them are never both true of the lower-cased
\* message that is classified.
C21_FollowUpBandExclusive ==
    cpc = "done" =>
        \A message \in {toLowerCase(classifierInput)} :
            \A i, j \in FollowUpBand :
                (match(i, message) /\ match(j, message)) => i = j

(***************************************************************************)
(* The questions of the coaching flows, under SpecQuestions                *)
(***************************************************************************)

\* The cues by which check-in-frequency tells a question.
CheckInQuestionCues == {"?", "would you", "do you", "prefer"}

\* C22: check-in-frequency is true only of messages with a question cue
\* ('?', 'would you', 'do you' or 'prefer'); a statement that mentions
\* check-ins with 'how often' / 'frequency', or 'weekly or fortnightly',
\* without a cue does not match.
C22_CheckInFrequencyOnlyQuestions ==
    cpc = "done" =>
        \A message \in {toLowerCase(classifierInput)} :
            match_check_in_frequency(message) =>
                SomeIncluded(message, CheckInQuestionCues)

\* The phrases by which nutrition-goal is to tell a recommendation, in the
\* letter case of the message the classifier passes.
NutritionGoalRecommendationCues ==
    {"would suit you best", "based on what you've shared", "i recommend",
     "i'd recommend"}

\* C23: nutrition-goal is false of every lower-cased message that contains
\* 'would suit you best', 'based on what you've shared', 'i recommend' or
\* 'i'd recommend', also when the message contains 'nutrition goal'.
C23_NutritionGoalNotOnRecommendations ==
    cpc = "done" =>
        \A message \in {toLowerCase(classifierInput)} :
            SomeIncluded(message, NutritionGoalRecommendationCues) =>
                ~match_nutrition_goal(message)

\* C24: a message with the template 'what kind of support would help you'
\* and the keyword 'nutrition' is not classified as
\* staying-consistent-followup-strength; the strength pattern is returned
\* for the template only when 'nutrition' is absent.
C24_StrengthBranchOnlyWithoutNutrition ==
    cpc = "done" =>
        \A message \in {toLowerCase(classifierInput)} :
            ( /\ Includes(message, "what kind of support would help you")
              /\ Includes(message, "nutrition") ) =>
                classifierResult # "staying-consistent-followup-strength"

\* The table positions of the patterns of the given ids.
PositionsOf(ids) == {i \in 1..Len(DISCOVERY_PATTERNS) : DISCOVERY_PATTERNS[i].id \in ids}

\* C25: a message with 'would you prefer in-person or online' and one of
\* 'beginner', 'club coaching', 'technique', 'confidence', that fires no
\* exclusion rule and of which no pattern other than the two coaching
\* questions is true, classifies to beginner-coaching-choice, with the
\* options 'In-person club coaching' and 'Online coaching', and not to
\* coaching-preference.
C25_BeginnerCoachingChoice ==
    cpc = "done" =>
        \A message \in {toLowerCase(classifierInput)} :
            ( /\ Includes(message, "would you prefer in-person or online")
              /\ SomeIncluded(message, {"beginner", "club coaching", "technique",
                                        "confidence"})
              /\ ~ExclusionRuleFires(message)
              /\ Matching(message) \subseteq
                    PositionsOf({"beginner-coaching-choice", "coaching-preference"}) ) =>
                /\ classifierResult = "beginner-coaching-choice"
                /\ discoveryChips =
                    << [value |-> "In-person club coaching",
                        text |-> "In-person club coaching"],
                       [value |-> "Online coaching", text |-> "Online coaching"] >>

(***************************************************************************)
(* Requests in flight, under Spec                                          *)
(***************************************************************************)

\* C26: at most one /api/chat request is outstanding; isTyping is true
\* exactly while one is; and a request is posted only by a step that finds
\* isTyping false and no request outstanding, and leaves isTyping true.
C26_OneChatRequestInFlight ==
    [][/\ Len(chatInFlight') <= 1
       /\ isTyping' <=> (chatInFlight' # << >>)
       /\ Len(chatSent') > Len(chatSent) =>
            /\ ~isTyping
            /\ chatInFlight = << >>
            /\ isTyping'
            /\ Len(chatSent') = Len(chatSent) + 1]_vars

\* The second request of the run is outstanding, the first having been
\* answered, and the user has typed the next message into the box.
C26_Witness ==
    /\ Len(chatSent) = 2
    /\ Len(chatInFlight) = 1
    /\ isTyping
    /\ trim(messageInput) # ""

\* C27: whenever chips are displayed, no /api/chat request is outstanding,
\* the last message of the page is an assistant message, and the chips are
\* the options of the pattern the classifier returns for that message.
C27_ChipsNeverStale ==
    discoveryChips # << >> =>
        /\ chatInFlight = << >>
        /\ messages # << >>
        /\ messages[Len(messages)].role = "assistant"
        /\ messages[Len(messages)].content \in EnvironmentTexts
        /\ discoveryQuestionOf[messages[Len(messages)].content] # 0
        /\ discoveryChips =
            DISCOVERY_PATTERNS[discoveryQuestionOf[messages[Len(messages)].content]].options

\* C28: the handover summaries displayed, and the POSTs to /api/escalate,
\* never outnumber the openings of the escalation form, with at most one
\* submission awaiting the history at a time.
C28_OneEscalationPerForm ==
    /\ Len(historyInFlight) <= 1
    /\ Len(summaryLog) <= modalShows
    /\ Len(escalateSent) <= modalShows

\* C29: isEscalated is reset only by a successful startNewChat; while it is
\* true no step posts a /api/chat request; and once the escalation form has
\* been cancelled or submitted while it is true, the form is not shown again
\* before that reset.
C29_EscalationSticky ==
    [][/\ (isEscalated /\ ~isEscalated') =>
            (newChatInFlight' < newChatInFlight /\ conversationId' = idsIssued')
       /\ isEscalated => chatSent' = chatSent
       /\ (isEscalated /\ formClosedSince) => modalShows' = modalShows]_vars

\* C30: every pattern of the table is returned by checkForDiscoveryQuestion
\* for at least one message, among the examples and the message at hand.
C30_EveryPatternSelectable ==
    \A i \in 1..Len(DISCOVERY_PATTERNS) :
        \E m \in PatternExamples \cup {classifierInput} : selectedPattern[m] = i
====
